---- MODULE Spec2Model ----
(***************************************************************************)
(* A model of the radx-harmonizer curation pipeline: the three phase       *)
(* drivers (src/src/phase1.py, phase2.py, phase3.py), the helpers of       *)
(* src/src/utils.py they call, and the dictionary harmonizer               *)
(* (data_dict_matcher_new).                                                *)
(*                                                                         *)
(* The file system of each project directory is state.  The content of a   *)
(* DATA/DICT/META triple is abstracted to a content class that says which  *)
(* check of the pipeline rejects it; the class travels with the DICT file  *)
(* when the triple is copied.  The operator (lock.txt, edits of the        *)
(* preorigcopy files, starting a run) acts only between runs: the program  *)
(* is a sequential batch job.                                              *)
(***************************************************************************)
EXTENDS Integers, Sequences, FiniteSets, TLC

\* ------------------------------------------------------------------ bounds
NumDirs == 2
NumTriples == 1
MaxClock == 1
MaxRuns == 3

Dirs == 1..NumDirs
Triples == 1..NumTriples

\* input_files = [dict_file, data_file, meta_file]
KindSet == {"DICT", "DATA", "META"}

Absent == -1

\* Content classes of a triple: the check that rejects it.
\*   ok  no check rejects it
\*   e1  check_meta_file (phase 1) and update_meta_data (phase 2 step 5)
\*   e2  is_not_utf8_encoded on the DICT file (step 2)
\*   e3  check_dict (step 3)
\*   e4  data_dict_matcher_new finds data columns missing in DICT (step 4)
\*   ph  DICT with placeholder rows added by step 4 (check_missing_values)
\*   e5  check_data_type / check_enums report a value error (step 5)
\*   x5  get_enum_values raises ValueError (step 5)
\*   e8  the external validator rejects the origcopy files (phase 3)
SourceClasses == {"ok", "e1", "e2", "e3", "e4", "e5", "x5", "e8"}

VARIABLES
    clock,    \* the file system's time
    pre,      \* pre[d][t]: the preorigcopy triple: mtime per kind, class
    work,     \* work[d]: the work directory
    out,      \* out[d]: the origcopy and transformcopy directories
    run,      \* the arguments of the running phase and its loop index
    pc,       \* position of the running phase
    errs,     \* error_messages of the dataset being processed
    nruns,    \* runs started so far
    wr,       \* directories the last action wrote to
    trace,    \* steps executed for the dataset being processed
    visited,  \* datasets of this run that passed the skip checks
    skipped,  \* datasets of this run skipped, with the reason
    ended,    \* how the last run ended: "none", "done", "abort"
    last,     \* the dataset this run entered last, 0 if none
    hadlog,   \* that dataset had an error file of this phase on entry
    synced,   \* synced[d]: the work files step1 has compared with their
              \* source since the source was last replaced
    harm,     \* the harmonizer's input and result (SpecHarm)
    chk       \* the input and result of one call of a step 5 check or of
              \* get_enum_values (SpecCheck, SpecEnum)

vars == <<clock, pre, work, out, run, pc, errs, nruns, wr, trace, visited, skipped,
          ended, last, hadlog, synced, harm, chk>>

\* ------------------------------------------------------------- file system
NoFiles == [k \in KindSet |-> Absent]

EmptyTriple == [m |-> NoFiles, q |-> "ok"]

\* A work directory that does not exist / right after os.makedirs.
\*   dir   the directory exists
\*   lock  lock.txt
\*   log   log[p]: phase<p>_errors.csv, <<>> when the file does not exist
\*   f     f[t]: the work copies <t>_DICT.csv, _DATA.csv, _META.csv
\*   o     o[t]: which of <t>_<KIND>_origcopy.csv exist
\*   j     the triples whose <t>_META_origcopy.json exists
\*   tofix the work files <<t, kind>> beside which a *_tofix.csv copy exists
NoWork ==
    [dir |-> FALSE, lock |-> FALSE, log |-> [p \in 1..3 |-> <<>>],
     f |-> [t \in Triples |-> EmptyTriple],
     o |-> [t \in Triples |-> {}], j |-> {}, tofix |-> {}]

\* The origcopy directory (oc: the triples copied to it, three files each)
\* and the transformcopy directory (tc[t]: which of <t>_DATA, _DICT, _META
\* _transformcopy.csv and <t>_META_transformcopy.json exist).
NoOut == [oc |-> {}, tc |-> [t \in Triples |-> {}]]

Min(a, b) == IF a < b THEN a ELSE b

\* Python's s[start:end] for 0 <= start, 0 <= end.
Slice(s, start, end) == SubSeq(s, start + 1, Min(end, Len(s)))

\* The ascending sequence of the members of a set of triples (sorted(glob)).
RECURSIVE Sorted(_)
Sorted(S) ==
    IF S = {} THEN <<>>
    ELSE LET x == CHOOSE y \in S : \A z \in S : y <= z
         IN  <<x>> \o Sorted(S \ {x})

Range(s) == {s[i] : i \in 1..Len(s)}

RECURSIVE Concat(_)
Concat(ss) == IF ss = <<>> THEN <<>> ELSE Head(ss) \o Concat(Tail(ss))



\* ------------------------------------------------------------ error records
\* append_error / append_warning: {severity, filename, message}; the file is
\* named by its triple and kind, the message by the check that wrote it.
Rec(sev, t, k, msg) == [severity |-> sev, t |-> t, k |-> k, message |-> msg]

append_error(msg, t, k) == <<Rec("ERROR", t, k, msg)>>

append_warning(msg, t, k) == <<Rec("WARN", t, k, msg)>>

\* The list is not written.
save_error_messages_lost(w, p, messages) == w

\* save_error_messages: the list is written to the error file.
save_error_messages(w, p, messages) ==
    [w EXCEPT !.log[p] = messages]

\* A list of one record passes.
handle_errors_and_continue_many(messages) == Len(messages) > 1

\* handle_errors_and_continue: a non-empty list is saved and the caller
\* goes on to the next dataset.
handle_errors_and_continue(messages) == Len(messages) > 0

\* ----------------------------------------------------------------- mtimes
\* The comparison not strict.
is_newer_or_equal(m1, m2) ==
    IF m2 = Absent THEN TRUE ELSE m1 >= m2

\* is_newer(filename1, filename2), on the files' mtimes; Absent: filename2
\* is no file.
is_newer(m1, m2) ==
    IF m2 = Absent THEN TRUE ELSE m1 > m2

\* ------------------------------------------------------------------- runs
IdleRun ==
    [phase |-> 0, reset |-> FALSE, rerun |-> FALSE, start |-> 0,
     end |-> NumTriples, dirs |-> <<>>, i |-> 1]

\* get_directories: the project directories matching include/exclude, in the
\* order glob returns them (any order).
DirLists ==
    {s \in UNION {[1..n -> Dirs] : n \in 1..NumDirs} :
        \A i, j \in 1..Len(s) : i # j => s[i] # s[j]}

\* start is passed zero-based (main: start-1); end = NumTriples stands for
\* every end >= the number of triples, sys.maxsize included.
Starts == 0..NumTriples
Ends == 1..NumTriples

Cur == run.dirs[run.i]

Running == pc # "idle"

NoSkips == [d \in Dirs |-> ""]

\* The harmonizer has not been called.
NoHarm == [data |-> <<>>, dict |-> <<>>, ref |-> <<>>, out |-> <<>>, errs |-> <<>>, done |-> FALSE]

\* No check has been called.
NoChk == [op |-> "none"]

\* A fresh installation: no work, origcopy or transformcopy directory yet;
\* every preorigcopy directory holds NumTriples complete triples.
FreshFiles(classes) ==
    /\ clock = 0
    /\ pre \in [Dirs -> [Triples -> [m : {[k \in KindSet |-> 0]}, q : classes]]]
    /\ work = [d \in Dirs |-> NoWork]
    /\ out = [d \in Dirs |-> NoOut]
    /\ run = IdleRun
    /\ pc = "idle"
    /\ errs = <<>>
    /\ nruns = 0
    /\ wr = {}
    /\ trace = <<>>
    /\ visited = {}
    /\ skipped = NoSkips
    /\ ended = "none"
    /\ last = 0
    /\ hadlog = FALSE
    /\ synced = [d \in Dirs |-> {}]

Fresh(classes) == FreshFiles(classes) /\ harm = NoHarm /\ chk = NoChk

\* Runs name one project (-include with a single project): the other
\* projects are never touched, so their content does not matter.
Init ==
    /\ Fresh(SourceClasses)
    /\ \A d \in Dirs \ {1} : \A t \in Triples : pre[d][t].q = "ok"

\* Runs over all projects, in any order.  Phase 1 has passed over some of
\* them (W: their work directory exists, with phase1_errors.csv if their
\* META file fails check_meta_file) and the operator has locked some (L).
MultiClasses == {"ok", "e1", "e5", "x5"}

InitMulti ==
    /\ clock = 0
    /\ pre \in [Dirs -> [Triples -> [m : {[k \in KindSet |-> 0]}, q : MultiClasses]]]
    /\ \E W \in SUBSET Dirs : \E L \in SUBSET W :
        work = [d \in Dirs |->
            IF d \notin W THEN NoWork
            ELSE [NoWork EXCEPT !.dir = TRUE, !.lock = d \in L,
                    !.log[1] = Concat([t \in Triples |->
                        IF pre[d][t].q = "e1"
                        THEN <<Rec("ERROR", t, "META", "Row is missing")>> ELSE <<>>])]]
    /\ out = [d \in Dirs |-> NoOut]
    /\ run = IdleRun
    /\ pc = "idle"
    /\ errs = <<>>
    /\ nruns = 0
    /\ wr = {}
    /\ trace = <<>>
    /\ visited = {}
    /\ skipped = NoSkips
    /\ ended = "none"
    /\ last = 0
    /\ hadlog = FALSE
    /\ synced = [d \in Dirs |-> {}]
    /\ harm = NoHarm
    /\ chk = NoChk

\* main of phase1.py / phase2.py / phase3.py: -reset and -rerun exclude each
\* other; phase 1 takes no slice, phase 3 neither reset nor rerun.
StartRun(p, reset, rerun, start, end, dirs) ==
    /\ pc = "idle"
    /\ nruns < MaxRuns
    /\ ~(reset /\ rerun)
    /\ p = 1 => ~rerun /\ start = 0 /\ end = NumTriples
    /\ p = 3 => ~reset /\ ~rerun
    /\ run' = [phase |-> p, reset |-> reset, rerun |-> rerun, start |-> start,
               end |-> end, dirs |-> dirs, i |-> 1]
    /\ pc' = "loop"
    /\ nruns' = nruns + 1
    /\ errs' = <<>>
    /\ wr' = {}
    /\ trace' = <<>>
    /\ visited' = {}
    /\ skipped' = NoSkips
    /\ ended' = "none"
    /\ last' = 0
    /\ hadlog' = FALSE
    /\ UNCHANGED <<clock, pre, work, out, synced, harm, chk>>

\* The for loop over directories is exhausted: the process exits normally.
RunEnd ==
    /\ pc = "loop"
    /\ run.i > Len(run.dirs)
    /\ pc' = "idle"
    /\ ended' = "done"
    /\ wr' = {}
    /\ UNCHANGED <<clock, pre, work, out, run, errs, nruns,
                   trace, visited, skipped, last, hadlog, synced, harm, chk>>

\* `break` in place of `continue`: the loop over the directories ends.
Break == [run EXCEPT !.i = Len(run.dirs) + 1]

\* `continue`: on to the next directory of the list.
Continue == [run EXCEPT !.i = @ + 1]

\* The body skips the directory d for the given reason.
Skip(d, why) ==
    /\ run' = Continue
    /\ skipped' = [skipped EXCEPT ![d] = why]
    /\ wr' = {}
    /\ UNCHANGED <<clock, pre, work, out, pc, errs, nruns,
                   trace, visited, ended, last, hadlog, synced, harm, chk>>

\* sys.exit / an uncaught exception: the process ends, nothing is saved.
Abort ==
    /\ pc' = "idle"
    /\ ended' = "abort"

\* ---------------------------------------------------------------- phase 2
\* The condition on rerun inverted.
Phase2Locked_inverted(d) == run.rerun /\ work[d].lock

\* phase2.py 79-87: with -rerun the lock file is ignored.
Phase2Locked(d) == ~run.rerun /\ work[d].lock

\* phase2.py 74-77, phase3.py 75-78: phase1_errors.csv exists.
phase1_error_file(w) == w.log[1] # <<>>

\* The phase 3 error file tested in place of the phase 2 error file.
phase2_error_file_wrong(w) == w.log[3] # <<>>

\* phase3.py 80-83: phase2_errors.csv exists.
phase2_error_file(w) == w.log[2] # <<>>

\* The work copies of the triples whose DICT file exists, sorted, sliced.
DictFiles(d) == Sorted({t \in Triples : work[d].f[t].m["DICT"] # Absent})

WorkSlice(d) == Slice(DictFiles(d), run.start, run.end)

\* phase2_checker, from the top of the loop body to the call of the first
\* step: the skip checks, the reset, the removal of the old error file.
P2Enter ==
    /\ pc = "loop" /\ run.phase = 2 /\ run.i <= Len(run.dirs)
    /\ LET d == Cur IN
       IF phase1_error_file(work[d]) THEN Skip(d, "p1")
       ELSE IF Phase2Locked(d) THEN Skip(d, "lock")
       ELSE IF run.reset /\ ~work[d].dir THEN Skip(d, "reseterr")
       ELSE LET w0 == IF run.reset THEN NoWork ELSE work[d]
                w1 == [w0 EXCEPT !.dir = TRUE, !.log[2] = <<>>]
            IN  /\ work' = [work EXCEPT ![d] = w1]
                /\ wr' = IF w1 # work[d] THEN {d} ELSE {}
                /\ pc' = IF run.rerun THEN "s2" ELSE "s1"
                /\ errs' = <<>>
                /\ trace' = <<>>
                /\ visited' = visited \cup {d}
                /\ last' = d
                /\ hadlog' = (work[d].log[2] # <<>>)
                /\ UNCHANGED <<clock, pre, out, run, nruns, skipped, ended, synced, harm, chk>>

\* The triples of step1's slice of the sorted preorigcopy DICT files.
Step1Slice == Range(Slice(Sorted(Triples), run.start, run.end))

\* One step of phase 2 on directory d ends: w is the work directory it
\* leaves, e the error list after it.  k is the step; after steps 2 to 5
\* handle_errors_and_continue decides whether the next step runs.
StepDone(k, d, w, e, written) ==
    /\ trace' = Append(trace, k)
    /\ errs' = e
    /\ wr' = IF written THEN {d} ELSE {}
    /\ IF k \in 2..5 /\ handle_errors_and_continue(e)
       THEN /\ work' = [work EXCEPT ![d] = save_error_messages(w, 2, e)]
            /\ run' = Continue
            /\ pc' = "loop"
       ELSE /\ work' = [work EXCEPT ![d] = w]
            /\ run' = IF k = 7 THEN Continue ELSE run
            /\ pc' = CASE k = 1 -> "s2" [] k = 2 -> "s3" [] k = 3 -> "s4"
                       [] k = 4 -> "s5" [] k = 5 -> "s6" [] k = 6 -> "s7"
                       [] OTHER -> "loop"
    /\ synced' = IF k = 1
                 THEN [synced EXCEPT ![d] = @ \cup (Step1Slice \X KindSet)]
                 ELSE synced
    /\ UNCHANGED <<clock, pre, out, nruns, visited, skipped, ended, last, hadlog, harm, chk>>

\* step1: copy the preorigcopy files that are newer than their work copy.
\* The source list is the sorted glob of the preorigcopy DICT files.
step1_file(d, t, k, old) ==
    IF is_newer(pre[d][t].m[k], old) THEN clock ELSE old

step1(d) ==
    LET sl == Step1Slice IN
    [work[d] EXCEPT !.f = [t \in Triples |->
        IF t \notin sl THEN @[t]
        ELSE [m |-> [k \in KindSet |-> step1_file(d, t, k, @[t].m[k])],
              q |-> IF is_newer(pre[d][t].m["DICT"], @[t].m["DICT"])
                    THEN pre[d][t].q ELSE @[t].q]]]

P2Step1 ==
    /\ pc = "s1"
    /\ LET d == Cur
           w == step1(d)
       IN  StepDone(1, d, w, errs, w # work[d])


\* The files are left as they are.
Rewrite_skipped(f, t, ks) == f

\* The files of triple t are rewritten (to_csv): their mtime is now.
Rewrite(f, t, ks) ==
    [f EXCEPT ![t].m = [k \in KindSet |-> IF k \in ks THEN clock ELSE @[k]]]

RECURSIVE RewriteAll(_, _, _)
RewriteAll(f, sl, ks) ==
    IF sl = <<>> THEN f ELSE RewriteAll(Rewrite(f, Head(sl), ks), Tail(sl), ks)

\* step2: is_not_utf8_encoded, then remove_spaces_from_header,
\* remove_empty_rows_cols and standardize_units rewrite each readable file.
step2_errors(w, t) ==
    IF w.f[t].q = "e2" THEN append_error("not utf-8", t, "DICT") ELSE <<>>

step2(w, sl) ==
    [w EXCEPT !.f = [t \in Triples |->
        IF t \notin Range(sl) THEN @[t]
        ELSE Rewrite(@, t, IF @[t].q = "e2" THEN {"DATA", "META"} ELSE KindSet)[t]]]

P2Step2 ==
    /\ pc = "s2"
    /\ LET d == Cur
           sl == WorkSlice(d)
           e == errs \o Concat([i \in 1..Len(sl) |-> step2_errors(work[d], sl[i])])
       IN  StepDone(2, d, step2(work[d], sl), e, sl # <<>>)

\* step3: fix_units (no legacy "Units" header in the modelled classes, so no
\* write) and check_dict.
step3_errors(w, t) ==
    IF w.f[t].q = "e3" THEN append_error("missing columns", t, "DICT") ELSE <<>>

P2Step3 ==
    /\ pc = "s3"
    /\ LET d == Cur
           sl == WorkSlice(d)
           e == errs \o Concat([i \in 1..Len(sl) |-> step3_errors(work[d], sl[i])])
       IN  StepDone(3, d, work[d], e, FALSE)

\* Nothing is recorded for the missing data elements.
step4_errors_none(w, t) == <<>>

\* step4: data_dict_matcher_new appends an ERROR and a WARN when data
\* columns are missing from the DICT file, adds the placeholder rows and
\* always writes the DICT file.
step4_errors(w, t) ==
    IF w.f[t].q = "e4"
    THEN append_error("DICT file is missing data elements", t, "DICT")
         \o append_warning("Added missing data elements", t, "DICT")
    ELSE <<>>

step4(w, sl) ==
    [w EXCEPT !.f = [t \in Triples |->
        IF t \notin Range(sl) THEN @[t]
        ELSE [m |-> Rewrite(@, t, {"DICT"})[t].m,
              q |-> IF @[t].q = "e4" THEN "ph" ELSE @[t].q]]]

P2Step4 ==
    /\ pc = "s4"
    /\ LET d == Cur
           sl == WorkSlice(d)
           e == errs \o Concat([i \in 1..Len(sl) |-> step4_errors(work[d], sl[i])])
       IN  StepDone(4, d, step4(work[d], sl), e, sl # <<>>)

\* step5, one triple.  check_missing_values (ph) and check_data_type /
\* check_enums (e5) report errors; check_data_type's remove_na rewrites the
\* DATA file.  Without such an error update_meta_data writes
\* <t>_META_origcopy.csv unless it fails (e1), and the DATA file is copied
\* to <t>_DATA_origcopy.csv in both cases.
step5_errors(w, t) ==
    CASE w.f[t].q = "ph" -> append_error("empty values", t, "DICT")
      [] w.f[t].q = "e5" -> append_error("Invalid data type", t, "DATA")
      [] w.f[t].q = "e1" -> append_error("Data file description not found", t, "META")
      [] OTHER -> <<>>

step5_any_error(w, t) == w.f[t].q \in {"ph", "e5"}

step5_triple(w, t) ==
    LET w1 == [w EXCEPT !.f = Rewrite(@, t, {"DATA"})] IN
    IF step5_any_error(w, t) THEN w1
    ELSE [w1 EXCEPT !.o[t] = @ \cup (IF w.f[t].q = "e1" THEN {"DATA"} ELSE {"DATA", "META"})]

RECURSIVE step5(_, _)
step5(w, sl) ==
    IF sl = <<>> THEN w ELSE step5(step5_triple(w, Head(sl)), Tail(sl))

\* get_enum_values raises for the choices of this triple's DICT file.
get_enum_values_raises(w, t) == w.f[t].q = "x5"

\* The index in sl of the first triple whose check raises, Len(sl)+1 if none.
FirstRaise(w, sl) ==
    LET R == {i \in 1..Len(sl) : get_enum_values_raises(w, sl[i])} IN
    IF R = {} THEN Len(sl) + 1 ELSE CHOOSE i \in R : \A j \in R : i <= j

P2Step5 ==
    /\ pc = "s5"
    /\ LET d == Cur
           sl == WorkSlice(d)
           n == FirstRaise(work[d], sl)
       IN  IF n <= Len(sl)
           THEN \* check_enums raises in triple sl[n], after remove_na
                /\ Abort
                /\ work' = [work EXCEPT ![d] =
                      [step5(work[d], SubSeq(sl, 1, n - 1)) EXCEPT
                          !.f = Rewrite(@, sl[n], {"DATA"})]]
                /\ errs' = errs \o Concat([i \in 1..(n - 1) |-> step5_errors(work[d], sl[i])])
                /\ trace' = Append(trace, 5)
                /\ wr' = {d}
                /\ UNCHANGED <<clock, pre, out, run, nruns,
                               visited, skipped, last, hadlog, synced, harm, chk>>
           ELSE LET e == errs \o Concat([i \in 1..Len(sl) |-> step5_errors(work[d], sl[i])])
                IN  StepDone(5, d, step5(work[d], sl), e, sl # <<>>)

\* step6: update_dict_file rewrites each DICT file.
P2Step6 ==
    /\ pc = "s6"
    /\ LET d == Cur
           sl == WorkSlice(d)
       IN  StepDone(6, d, [work[d] EXCEPT !.f = RewriteAll(@, sl, {"DICT"})], errs, sl # <<>>)

\* step7: convert_dict writes <t>_DICT_origcopy.csv.
step7(w, sl) ==
    [w EXCEPT !.o = [t \in Triples |-> IF t \in Range(sl) THEN @[t] \cup {"DICT"} ELSE @[t]]]

P2Step7 ==
    /\ pc = "s7"
    /\ LET d == Cur
           sl == WorkSlice(d)
       IN  StepDone(7, d, step7(work[d], sl), errs, sl # <<>>)

\* ---------------------------------------------------------------- phase 1
\* check_meta_file on the META file of each preorigcopy triple.  (The
\* preorigcopy directories of the model hold complete triples, for which
\* file_is_missing reports nothing.)
check_meta_file(d, t) ==
    IF pre[d][t].q = "e1" THEN append_error("Row is missing", t, "META") ELSE <<>>

\* phase1_checker, one directory: lock check, reset, removal of the old
\* error file, the checks, and the error file if any check failed.
P1Dir ==
    /\ pc = "loop" /\ run.phase = 1 /\ run.i <= Len(run.dirs)
    /\ LET d == Cur IN
       IF work[d].lock THEN Skip(d, "lock")
       ELSE LET w0 == IF run.reset THEN NoWork ELSE work[d]
                w1 == [w0 EXCEPT !.dir = TRUE, !.log[1] = <<>>]
                ts == Sorted(Triples)
                e == Concat([i \in 1..Len(ts) |-> check_meta_file(d, ts[i])])
                w2 == IF Len(e) > 0 THEN save_error_messages(w1, 1, e) ELSE w1
            IN  /\ work' = [work EXCEPT ![d] = w2]
                /\ wr' = IF w2 # work[d] THEN {d} ELSE {}
                /\ errs' = e
                /\ trace' = <<11>>
                /\ visited' = visited \cup {d}
                /\ run' = Continue
                /\ last' = d
                /\ hadlog' = (work[d].log[1] # <<>>)
                /\ UNCHANGED <<clock, pre, out, pc, nruns, skipped, ended, synced, harm, chk>>

\* ---------------------------------------------------------------- phase 3
\* The triples whose <t>_<KIND>_origcopy.csv exists in the work directory.
OrigFiles(w, k) == {t \in Triples : k \in w.o[t]}

OrigSlice(w, k) == Slice(Sorted(OrigFiles(w, k)), run.start, run.end)

\* file_is_missing_in_work_directory: the DATA, DICT and META globs match the
\* work copies and the origcopy files alike; lock.txt is ignored.
file_is_missing_in_work_directory(w) ==
    LET present == {t \in Triples : w.f[t].m["DICT"] # Absent}
        n(k) == Cardinality(present) + Cardinality(OrigFiles(w, k))
        ts == Sorted(OrigFiles(w, "DATA"))
    IN  (IF n("DATA") # n("DICT") \/ n("DATA") # n("META")
         THEN append_error("DATA, DICT, META file mismatch", 0, "DIR") ELSE <<>>)
        \o Concat([i \in 1..Len(ts) |->
              (IF "DICT" \notin w.o[ts[i]]
               THEN append_error("DICT file missing", ts[i], "DICT") ELSE <<>>)
              \o (IF "META" \notin w.o[ts[i]]
                  THEN append_error("META file missing", ts[i], "META") ELSE <<>>)])

\* phase3_checker from the top of the loop body to the first
\* handle_errors_and_continue calls: skip checks, clean-up of the previous
\* run, file_is_missing_in_work_directory, check_origcopy_meta_file (which
\* accepts the META files update_meta_data wrote).
P3Enter ==
    /\ pc = "loop" /\ run.phase = 3 /\ run.i <= Len(run.dirs)
    /\ LET d == Cur IN
       IF ~work[d].dir
       THEN /\ Abort
            /\ wr' = {}
            /\ UNCHANGED <<clock, pre, work, out, run, errs, nruns,
                           trace, visited, skipped, last, hadlog, synced, harm, chk>>
       ELSE IF phase1_error_file(work[d]) THEN Skip(d, "p1")
       ELSE IF phase2_error_file(work[d]) THEN Skip(d, "p2")
       ELSE LET w1 == [work[d] EXCEPT !.log[3] = <<>>, !.j = {}]
                o1 == IF run.start = 0 THEN NoOut ELSE out[d]
                e == file_is_missing_in_work_directory(w1)
                w2 == IF Len(e) > 0 THEN save_error_messages(w1, 3, e) ELSE w1
            IN  /\ work' = [work EXCEPT ![d] = w2]
                /\ out' = [out EXCEPT ![d] = o1]
                /\ wr' = IF w2 # work[d] \/ o1 # out[d] THEN {d} ELSE {}
                /\ errs' = e
                /\ trace' = <<31>>
                /\ visited' = visited \cup {d}
                /\ IF handle_errors_and_continue(e)
                   THEN run' = Continue /\ pc' = "loop"
                   ELSE run' = run /\ pc' = "v1"
                /\ last' = d
                /\ hadlog' = (work[d].log[3] # <<>>)
                /\ UNCHANGED <<clock, pre, nruns, skipped, ended, synced, harm, chk>>

\* The external dictionary validator writes to stderr for this triple.
validator_rejects(w, t) == w.f[t].q = "e8"

\* is_valid_data(work_dir, "origcopy"): compile_metadata writes
\* <t>_META_origcopy.json for the sliced META files, validate_dictionary
\* runs on the sliced DICT files; each is followed by
\* handle_errors_and_continue.
P3Valid ==
    /\ pc = "v1"
    /\ LET d == Cur
           ms == OrigSlice(work[d], "META")
           ds == OrigSlice(work[d], "DICT")
           w1 == [work[d] EXCEPT !.j = @ \cup Range(ms)]
           e == errs \o Concat([i \in 1..Len(ds) |->
                   IF validator_rejects(w1, ds[i])
                   THEN append_error("Dictionary validation failed", ds[i], "DICT")
                   ELSE <<>>])
       IN  /\ trace' = Append(trace, 32)
           /\ errs' = e
           /\ wr' = IF ms # <<>> \/ Len(e) > 0 THEN {d} ELSE {}
           /\ IF handle_errors_and_continue(e)
              THEN /\ work' = [work EXCEPT ![d] = save_error_messages(w1, 3, e)]
                   /\ run' = Continue /\ pc' = "loop"
              ELSE /\ work' = [work EXCEPT ![d] = w1]
                   /\ run' = run /\ pc' = "t0"
           /\ UNCHANGED <<clock, pre, out, nruns, visited,
                          skipped, ended, last, hadlog, synced, harm, chk>>

\* step0: copy the sliced origcopy triples to the origcopy directory.
step0(w, o) == [o EXCEPT !.oc = @ \cup Range(OrigSlice(w, "DICT"))]

\* step1, step2: DATA and DICT transformcopy files of the sliced triples.
\* (Every triple of the model contains minimum CDEs.)
step1_2(w, o) ==
    [o EXCEPT !.tc = [t \in Triples |->
        IF t \in Range(OrigSlice(w, "DICT")) THEN @[t] \cup {"DATA", "DICT"} ELSE @[t]]]

\* step4: a META transformcopy file for every DATA file of the transformcopy
\* directory, made from the work directory's <t>_META_origcopy.csv.
step4_sources_missing(w, o) ==
    \E t \in Triples : "DATA" \in o.tc[t] /\ "META" \notin w.o[t]

step4p3(w, o) ==
    [o EXCEPT !.tc = [t \in Triples |->
        IF "DATA" \in @[t] THEN @[t] \cup {"META"} ELSE @[t]]]

\* step0 to step4 of phase 3.  step0 exits when the work directory holds no
\* origcopy file; step4 raises when a META origcopy file is missing.
P3Promote ==
    /\ pc = "t0"
    /\ LET d == Cur
           w == work[d]
           o2 == step1_2(w, step0(w, out[d]))
       IN  IF \A t \in Triples : w.o[t] = {}
           THEN /\ Abort
                /\ wr' = {}
                /\ trace' = Append(trace, 33)
                /\ UNCHANGED <<clock, pre, work, out, run, errs,
                               nruns, visited, skipped, last, hadlog, synced, harm, chk>>
           ELSE IF step4_sources_missing(w, o2)
           THEN /\ Abort
                /\ out' = [out EXCEPT ![d] = o2]
                /\ wr' = {d}
                /\ trace' = Append(trace, 33)
                /\ UNCHANGED <<clock, pre, work, run, errs, nruns,
                               visited, skipped, last, hadlog, synced, harm, chk>>
           ELSE /\ out' = [out EXCEPT ![d] = step4p3(w, o2)]
                /\ wr' = {d}
                /\ trace' = Append(trace, 33)
                /\ pc' = "v2"
                /\ UNCHANGED <<clock, pre, work, run, errs, nruns,
                               visited, skipped, ended, last, hadlog, synced, harm, chk>>

\* final_consistency_check on the numbers of files its globs find.
final_consistency_check(preorigcopies, origcopies, transformcopies) ==
    (IF origcopies % 3 # 0 \/ origcopies < preorigcopies
     THEN append_error("invalid number of origcopy files", 0, "ORIGCOPY") ELSE <<>>)
    \o (IF transformcopies % 3 # 0
        THEN append_error("Invalid number of transformcopy files", 0, "TRANSFORMCOPY") ELSE <<>>)

\* phase3_checker passes the work directory as preorigcopy_dir: the glob
\* rad_*_*-*_*_*_preorigcopy.csv finds nothing there, as step1 of phase 2
\* copies the files under names without the suffix.
preorigcopy_dir_files(w) == 0

final_check(w, o) ==
    final_consistency_check(
        preorigcopy_dir_files(w),
        3 * Cardinality(o.oc),
        Cardinality({<<t, k>> \in Triples \X {"DATA", "DICT", "META", "JSON"} : k \in o.tc[t]}))

\* is_valid_data(transformcopy_dir, "transformcopy") (unsliced: a JSON file
\* for every META csv file), the removal of the sliced META csv files, and
\* the final consistency check when end reaches the number of META files.
P3Final ==
    /\ pc = "v2"
    /\ LET d == Cur
           o1 == [out[d] EXCEPT !.tc = [t \in Triples |->
                    IF "META" \in @[t] THEN @[t] \cup {"JSON"} ELSE @[t]]]
           rm == Range(Slice(Sorted({t \in Triples : "META" \in o1.tc[t]}), run.start, run.end))
           o2 == [o1 EXCEPT !.tc = [t \in Triples |-> IF t \in rm THEN @[t] \ {"META"} ELSE @[t]]]
           num_files == Cardinality(OrigFiles(work[d], "META"))
           e == IF run.end >= num_files THEN errs \o final_check(work[d], o2) ELSE errs
       IN  /\ out' = [out EXCEPT ![d] = o2]
           /\ work' = [work EXCEPT ![d] =
                 IF handle_errors_and_continue(e) THEN save_error_messages(@, 3, e) ELSE @]
           /\ errs' = e
           /\ wr' = {d}
           /\ trace' = Append(trace, 34)
           /\ run' = Continue
           /\ pc' = "loop"
           /\ UNCHANGED <<clock, pre, nruns, visited, skipped, ended, last, hadlog, synced, harm, chk>>

\* ---------------------------------------------------------- the operator
\* The operator puts lock.txt into a work directory or removes it.
ToggleLock(d) ==
    /\ pc = "idle"
    /\ work[d].dir
    /\ work' = [work EXCEPT ![d].lock = ~@]
    /\ wr' = {}
    /\ UNCHANGED <<clock, pre, out, run, pc, errs, nruns,
                   trace, visited, skipped, ended, last, hadlog, synced, harm, chk>>

\* Time passes.
Tick ==
    /\ pc = "idle"
    /\ clock < MaxClock
    /\ clock' = clock + 1
    /\ wr' = {}
    /\ UNCHANGED <<pre, work, out, run, pc, errs, nruns,
                   trace, visited, skipped, ended, last, hadlog, synced, harm, chk>>

\* The operator replaces a preorigcopy file; a new DICT file may be of
\* another content class.
TouchSource(d, t, k, q) ==
    /\ pc = "idle"
    /\ pre[d][t].m[k] < clock
    /\ k # "DICT" => q = pre[d][t].q
    /\ pre' = [pre EXCEPT ![d][t] = [m |-> [@.m EXCEPT ![k] = clock], q |-> q]]
    /\ synced' = [synced EXCEPT ![d] = @ \ {<<t, k>>}]
    /\ wr' = {}
    /\ UNCHANGED <<clock, work, out, run, pc, errs, nruns,
                   trace, visited, skipped, ended, last, hadlog, harm, chk>>

Phase1 == P1Dir

Phase3 ==
    \/ P3Enter
    \/ P3Valid
    \/ P3Promote
    \/ P3Final

Phase2 ==
    \/ P2Enter
    \/ P2Step1
    \/ P2Step2
    \/ P2Step3
    \/ P2Step4
    \/ P2Step5
    \/ P2Step6
    \/ P2Step7

Modes(dirlists) ==
    \E p \in 1..3, reset, rerun \in BOOLEAN, start \in Starts, end \in Ends, dirs \in dirlists :
        StartRun(p, reset, rerun, start, end, dirs)

Start == Modes({<<1>>})

Next ==
    \/ Start
    \/ RunEnd
    \/ Phase1
    \/ Phase2
    \/ Phase3
    \/ \E d \in Dirs : ToggleLock(d)

Spec == Init /\ [][Next]_vars

\* Runs over every project.
MultiRuns == 2

StartMulti == nruns < MultiRuns /\ Modes({s \in DirLists : Len(s) = NumDirs})

Program ==
    \/ RunEnd
    \/ Phase1
    \/ Phase2
    \/ Phase3

NextMulti ==
    \/ StartMulti
    \/ Program

SpecMulti == InitMulti /\ [][NextMulti]_vars /\ WF_vars(Program)

\* Phase 2 runs on one project while time passes and the operator replaces
\* preorigcopy files between the runs.
CopyClasses == {"ok", "e5"}

InitCopy ==
    /\ Fresh(CopyClasses)
    /\ \A d \in Dirs \ {1} : \A t \in Triples : pre[d][t].q = "ok"

StartCopy ==
    \E reset, rerun \in BOOLEAN, start \in Starts, end \in Ends :
        StartRun(2, reset, rerun, start, end, <<1>>)

NextCopy ==
    \/ StartCopy
    \/ RunEnd
    \/ Phase2
    \/ Tick
    \/ \E t \in Triples, k \in KindSet, q \in CopyClasses : TouchSource(1, t, k, q)

SpecCopy == InitCopy /\ [][NextCopy]_vars

\* ------------------------------------------------------------ harmonizer
\* data_dict_matcher_new and its helpers, on the rows of the dictionaries.
\* A dictionary is a sequence of rows; a row is its "Variable / Field Name"
\* (id) and the content of its other columns (attr): "ds" for a row of the
\* dataset's DICT file, "ref" for a row of the harmonized reference
\* dictionary, "" when every other column is empty.  fix_dictionary_columns
\* renames, adds and orders columns and leaves the rows as they are.
MaxCols == 3
MaxRows == 2
MaxRef == 2

Fields == {"a", "b", "c"}
FieldIds == Fields \cup {"x"}

Row(id, attr) == [id |-> id, attr |-> attr]

SeqsUpTo(S, n) == UNION {[1..m -> S] : m \in 0..n}

\* The column names pd.read_csv gives a data table are distinct.
DataColumns ==
    {s \in SeqsUpTo(Fields, MaxCols) :
        Len(s) > 0 /\ \A i, j \in 1..Len(s) : i # j => s[i] # s[j]}

HarmInputs ==
    [data : DataColumns,
     dict : SeqsUpTo({Row(f, "ds") : f \in FieldIds}, MaxRows),
     ref : SeqsUpTo({Row(f, "ref") : f \in FieldIds}, MaxRef),
     out : {<<>>}, errs : {<<>>}, done : {FALSE}]

Ids(dictionary) == {dictionary[i].id : i \in 1..Len(dictionary)}

\* The reference rows put after the rows of the DICT file.
add_harmonized_data_elements_appended(dictionary, harmonized_dict) ==
    dictionary \o harmonized_dict

\* pd.concat([dictionary_harmonized, dictionary])
add_harmonized_data_elements(dictionary, harmonized_dict) ==
    harmonized_dict \o dictionary

\* A placeholder row that repeats the identifier in every column.
add_missing_data_elements_filled(dictionary, missing_data_elements) ==
    dictionary \o [i \in 1..Len(missing_data_elements) |->
                      Row(missing_data_elements[i], missing_data_elements[i])]

\* A row for each missing data element: the identifier, "" elsewhere.
add_missing_data_elements(dictionary, missing_data_elements) ==
    dictionary \o [i \in 1..Len(missing_data_elements) |->
                      Row(missing_data_elements[i], "")]

\* The rows of d whose index is in keep, in the order of d.
RECURSIVE Keep(_, _, _)
Keep(d, keep, i) ==
    IF i > Len(d) THEN <<>>
    ELSE (IF i \in keep THEN <<d[i]>> ELSE <<>>) \o Keep(d, keep, i + 1)

\* Every row stays.
drop_duplicates_none(d) == d

\* drop_duplicates(subset=primary_key): the first row of each id stays.
drop_duplicates(d) ==
    Keep(d, {i \in 1..Len(d) : \A j \in 1..(i - 1) : d[j].id # d[i].id}, 1)

\* The rows are left in the order they have.
reorder_data_dictionary_unsorted(dictionary, data_fields) == dictionary

\* reorder_data_dictionary: sort by the position of the id in data_fields;
\* an id that is no category becomes NaN and sorts last.
reorder_data_dictionary(dictionary, data_fields) ==
    Concat([i \in 1..Len(data_fields) |->
               SelectSeq(dictionary, LAMBDA r : r.id = data_fields[i])])
    \o SelectSeq(dictionary, LAMBDA r : r.id \notin Range(data_fields))

\* The orders in which list(set) may give the members of S.
Orders(S) ==
    {s \in [1..Cardinality(S) -> S] : \A i, j \in 1..Cardinality(S) : i # j => s[i] # s[j]}

MissingDataElements(h) ==
    Range(h.data) \ Ids(add_harmonized_data_elements(h.dict, h.ref))

\* data_dict_matcher_new; missing is list(data_fields - data_elements) in
\* the order the set gave it.  The records name the DICT file (triple 0: the
\* call is not part of a run).
data_dict_matcher_new(h, missing) ==
    LET d1 == add_harmonized_data_elements(h.dict, h.ref)
        d2 == SelectSeq(d1, LAMBDA r : r.id \in Range(h.data))
        d3 == IF Len(missing) > 0 THEN add_missing_data_elements(d2, missing) ELSE d2
        e == IF Len(missing) > 0
             THEN append_error("DICT file is missing data elements", 0, "DICT")
                  \o append_warning("Added missing data elements", 0, "DICT")
             ELSE <<>>
        d4 == drop_duplicates(d3)
    IN  [h EXCEPT !.out = reorder_data_dictionary(d4, h.data),
                  !.errs = @ \o e,
                  !.done = TRUE]

InitHarm ==
    /\ FreshFiles({"ok"})
    /\ harm \in HarmInputs
    /\ chk = NoChk

Harmonize ==
    /\ ~harm.done
    /\ \E missing \in Orders(MissingDataElements(harm)) :
        harm' = data_dict_matcher_new(harm, missing)
    /\ UNCHANGED <<clock, pre, work, out, run, pc, errs, nruns, wr, trace, visited,
                   skipped, ended, last, hadlog, synced, chk>>

NextHarm == Harmonize

SpecHarm == InitHarm /\ [][NextHarm]_vars

\* ------------------------------------------- step 5: data types and enums
\* A cell of a DATA file is the sequence of the items between its "|"
\* characters: a cell without "|" has one item and the empty cell is <<"">>.
MaxCells == 2

NULL_VALUES == {"N/A", "NA", "NULL", "NaN", "None", "n/a", "nan", "null"}

\* The items of the cells: empty, an integer, a float, a string, a null value.
Items == {"", "1", "1.5", "X", "NA"}

Cells == {<<a>> : a \in Items} \cup {<<a, b>> : a, b \in Items}

\* The distinct values of a column.
Columns == UNION {{{s[i] : i \in 1..n} : s \in [1..n -> Cells]} : n \in 0..MaxCells}

\* A segment of a choices string (the text between two "|"): its text with
\* the surrounding blanks removed, the code ENUM_PATTERN_INT finds in it and
\* the code ENUM_PATTERN_STR finds in it ("" where the pattern finds none).
\* Both patterns read a label up to the next "|" or the end of the string,
\* so re.findall yields at most one match per segment, left to right.
Seg(tok, int, str) == [tok |-> tok, int |-> int, str |-> str]

S_empty == Seg("", "", "")
S_1 == Seg("1, One", "1", "")
S_2 == Seg("2, Two", "2", "")
S_X == Seg("X, Extra", "", "X")
S_Y == Seg("Y, Yes", "", "Y")
S_X2 == Seg("X, 2, Two", "2", "X")
T_X == Seg("X", "", "")
T_Y == Seg("Y", "", "")
T_yes == Seg("yes, Yes", "", "")

\* The choices string "" is the single empty segment.
NoChoices == <<S_empty>>

parse_integer_enums(enum) ==
    LET F[i \in 0..Len(enum)] ==
            IF i = 0 THEN <<>>
            ELSE IF enum[i].int # "" THEN Append(F[i-1], enum[i].int) ELSE F[i-1]
    IN  F[Len(enum)]

parse_string_enums(enum) ==
    LET F[i \in 0..Len(enum)] ==
            IF i = 0 THEN <<>>
            ELSE IF enum[i].str # "" THEN Append(F[i-1], enum[i].str) ELSE F[i-1]
    IN  F[Len(enum)]

parse_value_enums(enum) ==
    LET values == [i \in 1..Len(enum) |-> enum[i].tok]
    IN  IF Len(values) > 0 /\ values[1] # "" THEN values ELSE <<>>

\* The empty list of parse_value_enums is returned, nothing is raised.
get_enum_values_returns_empty(enum) ==
    IF Len(parse_integer_enums(enum)) > 0
    THEN [raised |-> FALSE, values |-> parse_integer_enums(enum)]
    ELSE IF Len(parse_string_enums(enum)) > 0
    THEN [raised |-> FALSE, values |-> parse_string_enums(enum)]
    ELSE [raised |-> FALSE, values |-> parse_value_enums(enum)]

\* The result of get_enum_values: the list of allowed values, or the
\* ValueError it raises.
get_enum_values(enum) ==
    IF Len(parse_integer_enums(enum)) > 0
    THEN [raised |-> FALSE, values |-> parse_integer_enums(enum)]
    ELSE IF Len(parse_string_enums(enum)) > 0
    THEN [raised |-> FALSE, values |-> parse_string_enums(enum)]
    ELSE IF Len(parse_value_enums(enum)) > 0
    THEN [raised |-> FALSE, values |-> parse_value_enums(enum)]
    ELSE [raised |-> TRUE, values |-> <<>>]

\* The field type alone decides; the choices are not looked at.
convert_data_type_ignores_choices(row) ==
    IF row.ftype \in {"text", "list", "url", "date", "time", "sequence", "category",
                      "yesno", "radio", "dropdown", "checkbox", "zipcode"}
    THEN "string"
    ELSE row.ftype

convert_data_type(row) ==
    IF Len(parse_integer_enums(row.choices)) > 0 THEN "integer"
    ELSE IF Len(parse_string_enums(row.choices)) > 0 THEN "string"
    ELSE IF Len(row.choices) > 1 THEN "string"
    ELSE IF row.ftype \in {"text", "list", "url", "date", "time", "sequence", "category",
                           "yesno", "radio", "dropdown", "checkbox", "zipcode"}
    THEN "string"
    ELSE row.ftype

\* Only "list" may hold several values.
determine_cardinality_list_only(row) ==
    IF row.ftype = "list" THEN "multiple" ELSE "single"

determine_cardinality(row) ==
    IF row.ftype \in {"list", "checkbox"} THEN "multiple" ELSE "single"

\* determine_type of a value without "|".
determine_type_item(value) ==
    IF value = "" THEN "blank"
    ELSE IF value \in NULL_VALUES THEN value
    ELSE IF value \in {"1"} THEN "integer"
    ELSE IF value \in {"1.5"} THEN "float"
    ELSE "string"

\* Mixed integers and floats are not represented as floats.
determine_type_no_collapse(value) ==
    IF Len(value) > 1
    THEN LET types == {determine_type_item(value[i]) : i \in 1..Len(value)}
         IN  IF Cardinality(types) > 1 THEN "string" ELSE CHOOSE t \in types : TRUE
    ELSE determine_type_item(value[1])

determine_type(value) ==
    IF Len(value) > 1
    THEN LET types == {determine_type_item(value[i]) : i \in 1..Len(value)}
             t2 == IF types = {"integer", "float"} THEN {"float"} ELSE types
         IN  IF Cardinality(t2) > 1 THEN "string" ELSE CHOOSE t \in t2 : TRUE
    ELSE determine_type_item(value[1])

\* data.replace(NULL_VALUES, "") replaces whole cells only.
remove_na(cells) ==
    {IF Len(c) = 1 /\ c[1] \in NULL_VALUES THEN <<"">> ELSE c : c \in cells}

\* The blank type is not removed.
get_column_type_keeps_blank(cells) ==
    LET types == {determine_type(c) : c \in cells}
    IN  IF types = {"integer", "float"} THEN {"float"} ELSE types

get_column_type(cells) ==
    LET types == {determine_type(c) : c \in cells} \ {"blank"}
    IN  IF types = {"integer", "float"} THEN {"float"} ELSE types

get_column_cardinality(cells) ==
    IF \E c \in cells : Len(c) > 1 THEN "multiple" ELSE "single"

get_offending_data_values(cells) == {c \in cells : determine_type(c) = "string"}

\* The messages of check_data_type, with the parts the f-strings insert.
Msg(text, column, dict, data) ==
    [text |-> text, column |-> column, dict |-> dict, data |-> data]

\* Every mismatch of a single observed type is reported.
type_errors_strict(column, dict_type, types, cells) ==
    IF Cardinality(types) = 1 /\ types # {dict_type}
    THEN append_error(Msg("Invalid data type in column", column, dict_type, types), 1, "DATA")
    ELSE IF Cardinality(types) > 1 /\ dict_type # "string"
    THEN append_error(Msg("Mixed data types in column", column, dict_type, types), 1, "DATA")
         \o append_error(Msg("String values found in column", column, "",
                             get_offending_data_values(cells)), 1, "DATA")
    ELSE <<>>

\* The type branch of the loop body of check_data_type.
type_errors(column, dict_type, types, cells) ==
    IF Cardinality(types) = 1 /\ types # {dict_type}
    THEN IF dict_type = "string" /\ types = {"integer"} THEN <<>>
         ELSE IF dict_type = "float" /\ types = {"integer"} THEN <<>>
         ELSE append_error(Msg("Invalid data type in column", column, dict_type, types),
                           1, "DATA")
    ELSE IF Cardinality(types) > 1 /\ dict_type # "string"
    THEN append_error(Msg("Mixed data types in column", column, dict_type, types), 1, "DATA")
         \o append_error(Msg("String values found in column", column, "",
                             get_offending_data_values(cells)), 1, "DATA")
    ELSE <<>>

\* The cardinality branch of the loop body of check_data_type.
cardinality_errors(column, row, cells) ==
    IF get_column_cardinality(cells) = "multiple" /\ determine_cardinality(row) = "single"
    THEN append_error(Msg("Multiple values are not allowed in column", column, "", {}),
                      1, "DATA")
    ELSE <<>>

\* check_data_type for one column of the DATA file and its DICT row (after
\* step 4 every column of the DATA file has one); the columns named "type"
\* and "cardinality" are passed over.
check_data_type(column, row, cells) ==
    LET data == remove_na(cells)
    IN  IF column \in {"type", "cardinality"} THEN <<>>
        ELSE cardinality_errors(column, row, data)
             \o type_errors(column, convert_data_type(row), get_column_type(data), data)

expand_column_values(column_values) ==
    UNION {IF Len(value) > 1 THEN {<<value[i]>> : i \in 1..Len(value)} ELSE {value} :
           value \in column_values}

\* The values are compared whole in every column.
check_enums_whole(column, row, cells) ==
    LET mismatches == (cells \ {<<"">>})
                      \ {<<v>> : v \in Range(get_enum_values(row.choices).values)}
    IN  IF row.choices = NoChoices \/ mismatches = {} THEN <<>>
        ELSE append_error(Msg("Invalid enumerated value(s) in column", column, "", mismatches),
                          1, "DATA")

\* check_enums for one column of the allowed values: the column is in
\* allowed_values if its choices are not "", and get_enum_values has
\* returned for it.
check_enums(column, row, cells) ==
    LET column_values == cells \ {<<"">>}
        expanded == IF row.ftype \in {"list", "checkbox"}
                    THEN expand_column_values(column_values) ELSE column_values
        enum_values == {<<v>> : v \in Range(get_enum_values(row.choices).values)}
        mismatches == expanded \ enum_values
    IN  IF row.choices = NoChoices \/ mismatches = {} THEN <<>>
        ELSE append_error(Msg("Invalid enumerated value(s) in column", column, "", mismatches),
                          1, "DATA")

ColumnNames == {"a", "type"}

FieldTypes == {"text", "integer", "float", "list", "checkbox", "timezone", ""}

ChoiceSamples ==
    {NoChoices, <<S_1, S_2>>, <<S_X, S_Y>>, <<T_X, T_Y>>, <<T_X>>, <<S_empty, T_X>>}

DictRows == [ftype : FieldTypes, choices : ChoiceSamples]

CheckInputs ==
    [op : {"check"}, column : ColumnNames, row : DictRows, cells : Columns,
     types : {<<>>}, enums : {<<>>}, raised : {FALSE}, done : {FALSE}]

InitCheck ==
    /\ FreshFiles({"ok"})
    /\ harm = NoHarm
    /\ chk \in CheckInputs

\* The two calls of step5 that read the values of the DATA file, for one
\* column: check_data_type, which rewrites the file without null values,
\* then check_enums, out of which the ValueError of get_enum_values
\* propagates.
Check ==
    /\ chk.op = "check" /\ ~chk.done
    /\ chk' = [chk EXCEPT
            !.types = check_data_type(chk.column, chk.row, chk.cells),
            !.raised = chk.row.choices # NoChoices /\ get_enum_values(chk.row.choices).raised,
            !.enums = IF chk.row.choices # NoChoices /\ get_enum_values(chk.row.choices).raised
                      THEN <<>>
                      ELSE check_enums(chk.column, chk.row, remove_na(chk.cells)),
            !.done = TRUE]
    /\ UNCHANGED <<clock, pre, work, out, run, pc, errs, nruns, wr, trace, visited,
                   skipped, ended, last, hadlog, synced, harm>>

NextCheck == Check

SpecCheck == InitCheck /\ [][NextCheck]_vars

\* get_enum_values on choices strings of up to MaxSegs segments.
MaxSegs == 2

Segments == {S_empty, S_1, S_2, S_X, S_Y, S_X2, T_X, T_Y, T_yes}

ChoiceStrings == UNION {[1..n -> Segments] : n \in 1..MaxSegs}

EnumInputs ==
    [op : {"enum"}, choices : ChoiceStrings, values : {<<>>}, raised : {FALSE}, done : {FALSE}]

InitEnum ==
    /\ FreshFiles({"ok"})
    /\ harm = NoHarm
    /\ chk \in EnumInputs

GetEnumValues ==
    /\ chk.op = "enum" /\ ~chk.done
    /\ chk' = [chk EXCEPT !.values = get_enum_values(chk.choices).values,
                          !.raised = get_enum_values(chk.choices).raised,
                          !.done = TRUE]
    /\ UNCHANGED <<clock, pre, work, out, run, pc, errs, nruns, wr, trace, visited,
                   skipped, ended, last, hadlog, synced, harm>>

NextEnum == GetEnumValues

SpecEnum == InitEnum /\ [][NextEnum]_vars

\* Runs of phase 1 and phase 2 over every project, where chk.choices is the
\* choices string of a row of the DICT file of project 1: the file is of
\* class "x5" if get_enum_values raises on the string (get_allowed_values
\* does not call it on ""), and "ok" otherwise.
Unparseable(enum) == enum # NoChoices /\ get_enum_values(enum).raised

InitAbort ==
    /\ FreshFiles({"ok", "x5"})
    /\ harm = NoHarm
    /\ chk \in EnumInputs
    /\ \A t \in Triples : pre[1][t].q = (IF Unparseable(chk.choices) THEN "x5" ELSE "ok")
    /\ \A d \in Dirs \ {1} : \A t \in Triples : pre[d][t].q = "ok"

StartAbort ==
    /\ nruns < MultiRuns
    /\ \E p \in 1..2, reset, rerun \in BOOLEAN, start \in Starts, end \in Ends,
          dirs \in {s \in DirLists : Len(s) = NumDirs} :
            StartRun(p, reset, rerun, start, end, dirs)

NextAbort ==
    \/ StartAbort
    \/ RunEnd
    \/ Phase1
    \/ Phase2
    \/ GetEnumValues

SpecAbort == InitAbort /\ [][NextAbort]_vars

\* The final consistency check of phase 3 on a dataset with pre files in its
\* preorigcopy directory, oc in its origcopy and tc in its transformcopy
\* directory.
MaxFiles == 9

FinalInputs ==
    [op : {"final"}, pre : 0..MaxFiles, oc : 0..MaxFiles, tc : 0..MaxFiles,
     errs : {<<>>}, done : {FALSE}]

InitFinal ==
    /\ FreshFiles({"ok"})
    /\ harm = NoHarm
    /\ chk \in FinalInputs

FinalCheck ==
    /\ chk.op = "final" /\ ~chk.done
    /\ chk' = [chk EXCEPT
            !.errs = final_consistency_check(preorigcopy_dir_files(NoWork), chk.oc, chk.tc),
            !.done = TRUE]
    /\ UNCHANGED <<clock, pre, work, out, run, pc, errs, nruns, wr, trace, visited,
                   skipped, ended, last, hadlog, synced, harm>>

NextFinal == FinalCheck

SpecFinal == InitFinal /\ [][NextFinal]_vars

\* ------------------------------------------------ phase 3: external tools
\* is_valid_data on one triple: the metadata compiler, the dictionary
\* validator and the metadata validator are run in this order by
\* run_command, which returns what the process wrote to stdout and stderr.
\* A process ends with an exit code in 0..MaxExit and has written to stderr
\* or not; the two are independent.
MaxExit == 1

Tools == <<"compile_metadata", "validate_dictionary", "validate_metadata">>

ToolResults == [exit : 0..MaxExit, stderr : {"", "message"}]

\* The stderr text of the process; the exit code is not read.
run_command(result) == result.stderr

\* The exit code decides.
tool_errors_by_exit(i, result) ==
    IF result.exit # 0
    THEN append_error(<<Tools[i], "failed">>, 1, "META") ELSE <<>>

\* The try block of compile_metadata, validate_dictionary and
\* validate_metadata for one file.  Popen raises no CalledProcessError.
tool_errors(i, result) ==
    IF run_command(result) # ""
    THEN append_error(<<Tools[i], "failed">>, 1, "META") ELSE <<>>

ToolInputs ==
    [op : {"tools"}, results : [1..3 -> ToolResults], step : {1}, calls : {<<>>},
     errs : {<<>>}, valid : {"running"}]

InitTools ==
    /\ FreshFiles({"ok"})
    /\ harm = NoHarm
    /\ chk \in ToolInputs

\* One tool of is_valid_data followed by handle_errors_and_continue.
RunTool(i) ==
    /\ chk.op = "tools" /\ chk.valid = "running" /\ chk.step = i
    /\ LET e == chk.errs \o tool_errors(i, chk.results[i])
       IN  chk' = [chk EXCEPT
                !.calls = Append(@, i),
                !.errs = e,
                !.step = i + 1,
                !.valid = IF handle_errors_and_continue(e) THEN "false"
                          ELSE IF i = 3 THEN "true" ELSE "running"]
    /\ UNCHANGED <<clock, pre, work, out, run, pc, errs, nruns, wr, trace, visited,
                   skipped, ended, last, hadlog, synced, harm>>

compile_metadata == RunTool(1)

validate_dictionary == RunTool(2)

validate_metadata == RunTool(3)

NextTools ==
    \/ compile_metadata
    \/ validate_dictionary
    \/ validate_metadata

SpecTools == InitTools /\ [][NextTools]_vars

\* ------------------------------------------------ phase 1: file_is_missing
\* The entries of a preorigcopy directory: the files named
\* rad_..._<KIND>_preorigcopy.csv of up to MaxStems triples (stem is the part
\* of the name before _<KIND>_), a file of another name, and a file whose
\* name begins with a dot, which glob's "*" does not match.
MaxStems == 2

Stems == 1..MaxStems

Entry(stem, kind) == [stem |-> stem, kind |-> kind]

Entries ==
    {Entry(s, k) : s \in Stems, k \in KindSet}
        \cup {Entry(0, "other"), Entry(0, "hidden")}

\* glob.glob(os.path.join(directory, "*")) and the three globs by kind.
glob_all(directory) == {f \in directory : f.kind # "hidden"}

glob_kind(directory, k) == {f \in directory : f.kind = k}

\* The records file_is_missing appends; it walks Python sets, so the order
\* of the records is not determined and they are kept as a set.
FileRec(msg, f) == [severity |-> "ERROR", filename |-> f, message |-> msg]

\* The numbers of DATA, DICT and META files are not compared.
file_is_missing_uncounted(directory) ==
    LET data_files == glob_kind(directory, "DATA")
    IN  {FileRec("Unrecognized file name", f) :
            f \in glob_all(directory) \ UNION {glob_kind(directory, k) : k \in KindSet}}
        \cup {FileRec("DICT file missing", Entry(f.stem, "DICT")) :
                f \in {g \in data_files : Entry(g.stem, "DICT") \notin directory}}
        \cup {FileRec("META file missing", Entry(f.stem, "META")) :
                f \in {g \in data_files : Entry(g.stem, "META") \notin directory}}

file_is_missing(directory) ==
    LET all_files == glob_all(directory)
        data_files == glob_kind(directory, "DATA")
        dict_files == glob_kind(directory, "DICT")
        meta_files == glob_kind(directory, "META")
        extra_files == ((all_files \ data_files) \ dict_files) \ meta_files
    IN  {FileRec("Unrecognized file name", f) : f \in extra_files}
        \cup (IF Cardinality(data_files) # Cardinality(dict_files)
                 \/ Cardinality(data_files) # Cardinality(meta_files)
              THEN {FileRec("DATA, DICT, META file mismatch", Entry(0, "directory"))}
              ELSE {})
        \cup {FileRec("DICT file missing", Entry(f.stem, "DICT")) :
                f \in {g \in data_files : Entry(g.stem, "DICT") \notin dict_files}}
        \cup {FileRec("META file missing", Entry(f.stem, "META")) :
                f \in {g \in data_files : Entry(g.stem, "META") \notin meta_files}}

MissingInputs ==
    [op : {"missing"}, directory : SUBSET Entries, errs : {{}}, log : {FALSE}, done : {FALSE}]

InitMissing ==
    /\ FreshFiles({"ok"})
    /\ harm = NoHarm
    /\ chk \in MissingInputs

\* phase1_checker on one directory whose META files pass check_meta_file:
\* file_is_missing, then the error file if the list is not empty.
FileIsMissing ==
    /\ chk.op = "missing" /\ ~chk.done
    /\ chk' = [chk EXCEPT !.errs = file_is_missing(chk.directory),
                          !.log = file_is_missing(chk.directory) # {},
                          !.done = TRUE]
    /\ UNCHANGED <<clock, pre, work, out, run, pc, errs, nruns, wr, trace, visited,
                   skipped, ended, last, hadlog, synced, harm>>

NextMissing == FileIsMissing

SpecMissing == InitMissing /\ [][NextMissing]_vars

\* ------------------------------------ get_input_output_files_for_next_step
\* A path P_n.csv or P_n_fixed.csv: P is a sequence of up to MaxPrefix
\* pieces, one of which may be the text "_fixed" or "_tofix"; n is the
\* version; fixed tells whether "_fixed" stands before ".csv".
MaxPrefix == 2
MaxVer == 2

Pieces == {"a", "_fixed", "_tofix"}

Path(prefix, ver, fixed) == [prefix |-> prefix, ver |-> ver, fixed |-> fixed]

Paths ==
    {Path(p, n, f) : p \in SeqsUpTo(Pieces, MaxPrefix), n \in 0..MaxVer, f \in BOOLEAN}

None == "None"

\* input_file.replace("_fixed", ""): every occurrence is removed.
replace_fixed(path) ==
    Path(SelectSeq(path.prefix, LAMBDA x : x # "_fixed"), path.ver, FALSE)

\* The version is not incremented.
next_step_same_version(input_file, isfile) ==
    IF \E i \in 1..Len(input_file.prefix) : input_file.prefix[i] = "_tofix"
    THEN [input |-> None, output |-> None]
    ELSE IF isfile
    THEN [input |-> input_file, output |-> replace_fixed(input_file)]
    ELSE [input |-> None, output |-> None]

get_input_output_files_for_next_step(input_file, isfile) ==
    IF \E i \in 1..Len(input_file.prefix) : input_file.prefix[i] = "_tofix"
    THEN [input |-> None, output |-> None]
    ELSE IF isfile
    THEN LET has_fixed_file == input_file.fixed
             parts == IF has_fixed_file THEN replace_fixed(input_file) ELSE input_file
         IN  [input |-> input_file, output |-> Path(parts.prefix, parts.ver + 1, FALSE)]
    ELSE [input |-> None, output |-> None]

NextStepInputs ==
    [op : {"next"}, path : Paths, isfile : BOOLEAN, input : {None}, output : {None},
     done : {FALSE}]

InitNextStep ==
    /\ FreshFiles({"ok"})
    /\ harm = NoHarm
    /\ chk \in NextStepInputs

NextStepFiles ==
    /\ chk.op = "next" /\ ~chk.done
    /\ LET r == get_input_output_files_for_next_step(chk.path, chk.isfile)
       IN  chk' = [chk EXCEPT !.input = r.input, !.output = r.output, !.done = TRUE]
    /\ UNCHANGED <<clock, pre, work, out, run, pc, errs, nruns, wr, trace, visited,
                   skipped, ended, last, hadlog, synced, harm>>

NextNextStep == NextStepFiles

SpecNextStep == InitNextStep /\ [][NextNextStep]_vars

\* ------------------------------------------------------ convert_data_type
\* The derivation used when the codebook is written (rows with the columns
\* Datatype and Enumeration, held here in ftype and choices).
convert_data_type_new(row) ==
    IF Len(parse_integer_enums(row.choices)) > 0 THEN "integer"
    ELSE IF Len(parse_string_enums(row.choices)) > 0 THEN "string"
    ELSE IF Len(row.choices) > 1 THEN "string"
    ELSE IF row.ftype \in {"text", "list", "url", "sequence", "category",
                           "yesno", "radio", "dropdown", "checkbox", "zipcode"}
    THEN "string"
    ELSE row.ftype

ALLOWED_TYPES ==
    {"text", "integer", "float", "date", "time", "timezone", "zipcode", "url",
     "sequence", "list", "category", "yesno", "radio", "dropdown", "checkbox"}

ConvertInputs ==
    [op : {"convert"}, row : [ftype : ALLOWED_TYPES, choices : ChoiceStrings],
     type : {""}, datatype : {""}, done : {FALSE}]

InitConvert ==
    /\ FreshFiles({"ok"})
    /\ harm = NoHarm
    /\ chk \in ConvertInputs

\* Both derivations applied to the same row.
ConvertDataType ==
    /\ chk.op = "convert" /\ ~chk.done
    /\ chk' = [chk EXCEPT !.type = convert_data_type(chk.row),
                          !.datatype = convert_data_type_new(chk.row),
                          !.done = TRUE]
    /\ UNCHANGED <<clock, pre, work, out, run, pc, errs, nruns, wr, trace, visited,
                   skipped, ended, last, hadlog, synced, harm>>

NextConvert == ConvertDataType

SpecConvert == InitConvert /\ [][NextConvert]_vars

\* --------------------------------------------------------- determine_type
\* A cell of the data file with up to MaxSubValues sub-values between "|";
\* remove_na has replaced a cell that is a null value as a whole by "".
MaxSubValues == 3

CellValues == UNION {[1..n -> Items] : n \in 1..MaxSubValues}

TypeInputs == [op : {"type"}, raw : CellValues, value : {<<>>}, type : {""}, done : {FALSE}]

InitType ==
    /\ FreshFiles({"ok"})
    /\ harm = NoHarm
    /\ chk \in TypeInputs

DetermineType ==
    /\ chk.op = "type" /\ ~chk.done
    /\ LET value == CHOOSE v \in remove_na({chk.raw}) : TRUE
       IN  chk' = [chk EXCEPT !.value = value, !.type = determine_type(value), !.done = TRUE]
    /\ UNCHANGED <<clock, pre, work, out, run, pc, errs, nruns, wr, trace, visited,
                   skipped, ended, last, hadlog, synced, harm>>

NextType == DetermineType

SpecType == InitType /\ [][NextType]_vars

\* ----------------------------------------------- convert_dict: the update
\* The dictionary of a dataset holds one row per field identifier
\* 1..MaxIds with the attributes Label and Unit.  The tier1 and tier2 files
\* are read with keep_default_na=False, so that an empty cell is the empty
\* string; the tier2 file may lack the Unit column, and pd.concat then
\* fills the Unit of its rows with NaN.
MaxIds == 2

NaN == "<NaN>"

Attributes == {"Label", "Unit"}

DictAttrs == [Label : {"ds", ""}, Unit : {"ds", ""}]

TierAttrs == [Label : {"ref", ""}, Unit : {"ref", ""}]

\* Where the identifier is found, and the cells of its row there.
TierRows ==
    {[tier |-> "none", row |-> [Label |-> "", Unit |-> ""]]}
        \cup [tier : {"tier1", "tier2"}, row : TierAttrs]

\* pd.concat([tier1_dict, tier2_dict]).set_index("Id")
concat(tiers, tier2_has_unit) ==
    [id \in {i \in DOMAIN tiers : tiers[i].tier # "none"} |->
        IF tiers[id].tier = "tier2" /\ ~tier2_has_unit
        THEN [tiers[id].row EXCEPT !.Unit = NaN]
        ELSE tiers[id].row]

\* The rows of the table replace the rows of the dictionary as they are.
update_whole_rows(dictionary, other) ==
    [id \in DOMAIN dictionary |->
        IF id \in DOMAIN other THEN other[id] ELSE dictionary[id]]

\* DataFrame.update: aligned on the index, a value of other that is not
\* NaN overwrites.
update(dictionary, other) ==
    [id \in DOMAIN dictionary |->
        [a \in Attributes |->
            IF id \in DOMAIN other /\ other[id][a] # NaN
            THEN other[id][a]
            ELSE dictionary[id][a]]]

UpdateInputs ==
    [op : {"update"}, dictionary : [1..MaxIds -> DictAttrs],
     tiers : [1..MaxIds -> TierRows], tier2_has_unit : BOOLEAN,
     updated : {<<>>}, done : {FALSE}]

InitUpdate ==
    /\ FreshFiles({"ok"})
    /\ harm = NoHarm
    /\ chk \in UpdateInputs

convert_dict ==
    /\ chk.op = "update" /\ ~chk.done
    /\ LET updated_dict == concat(chk.tiers, chk.tier2_has_unit)
       IN  chk' = [chk EXCEPT !.updated = update(chk.dictionary, updated_dict),
                              !.done = TRUE]
    /\ UNCHANGED <<clock, pre, work, out, run, pc, errs, nruns, wr, trace, visited,
                   skipped, ended, last, hadlog, synced, harm>>

NextUpdate == convert_dict

SpecUpdate == InitUpdate /\ [][NextUpdate]_vars

\* ------------------------------------- convert_min_to_global_data: remaps
\* One column of a data file with up to MaxCells cells.
RemapColumns == {"race", "sex", "employment", "insurance", "health_status", "age"}

RemapValues == {"", "1", "2", "3", "4", "5", "6", "9", "1|2"}

\* The entries of RADX_RAD_TO_RADX_GLOBAL for these columns.
rename_global(column) ==
    CASE column = "race" -> "nih_race"
      [] column = "sex" -> "nih_sex"
      [] column = "employment" -> "nih_employment"
      [] column = "insurance" -> "nih_insurance"
      [] column = "health_status" -> "nih_health_status"
      [] column = "age" -> "nih_age"

RADX_RAD_TO_RADX_GLOBAL_MAPPINGS ==
    [nih_race |-> ("1" :> "0" @@ "2" :> "2" @@ "3" :> "1" @@ "4" :> "3" @@ "5" :> "4"
                   @@ "6" :> "97" @@ "" :> ""),
     nih_sex |-> ("1" :> "1" @@ "2" :> "0" @@ "3" :> "2" @@ "4" :> "96" @@ "" :> ""),
     nih_employment |-> ("1" :> "0" @@ "2" :> "97" @@ "3" :> "1" @@ "" :> ""),
     nih_insurance |-> ("1" :> "1" @@ "2" :> "2" @@ "3" :> "0" @@ "" :> ""),
     nih_health_status |-> ("1" :> "0" @@ "2" :> "1" @@ "3" :> "2" @@ "4" :> "3"
                            @@ "5" :> "4" @@ "" :> "")]

\* Series.replace(mapping): every cell that is a key is replaced, once.
replace_mapping(cells, mapping) ==
    [i \in DOMAIN cells |-> IF cells[i] \in DOMAIN mapping THEN mapping[cells[i]] ELSE cells[i]]

\* The mapping is applied to every mapped column, nih_race included.
convert_exceptions_all_mapped(column, cells) ==
    IF column \in DOMAIN RADX_RAD_TO_RADX_GLOBAL_MAPPINGS
    THEN replace_mapping(cells, RADX_RAD_TO_RADX_GLOBAL_MAPPINGS[column])
    ELSE cells

convert_exceptions(column, cells) ==
    IF column \in DOMAIN RADX_RAD_TO_RADX_GLOBAL_MAPPINGS
    THEN IF column = "nih_race"
         THEN [i \in DOMAIN cells |-> IF cells[i] = "1|2" THEN "6" ELSE cells[i]]
         ELSE replace_mapping(cells, RADX_RAD_TO_RADX_GLOBAL_MAPPINGS[column])
    ELSE cells

\* data.replace("", "-9960")
replace_empty(cells) == [i \in DOMAIN cells |-> IF cells[i] = "" THEN "-9960" ELSE cells[i]]

RemapInputs ==
    [op : {"remap"}, column : RemapColumns,
     cells : UNION {[1..n -> RemapValues] : n \in 1..MaxCells},
     renamed : {""}, data : {<<>>}, done : {FALSE}]

InitRemap ==
    /\ FreshFiles({"ok"})
    /\ harm = NoHarm
    /\ chk \in RemapInputs

convert_min_to_global_data ==
    /\ chk.op = "remap" /\ ~chk.done
    /\ LET column == rename_global(chk.column)
       IN  chk' = [chk EXCEPT !.renamed = column,
                              !.data = replace_empty(convert_exceptions(column, chk.cells)),
                              !.done = TRUE]
    /\ UNCHANGED <<clock, pre, work, out, run, pc, errs, nruns, wr, trace, visited,
                   skipped, ended, last, hadlog, synced, harm>>

NextRemap == convert_min_to_global_data

SpecRemap == InitRemap /\ [][NextRemap]_vars

\* ------------------------------------- phase 3, steps 1 to 3: identifiers
\* An origcopy data file and its dictionary are taken by the set of their
\* field identifiers, drawn from minimum CDEs and a field "x" of the
\* depositor.
GlobalFields ==
    {"race", "fever", "chills", "nausea_vomiting", "diarrhea", "height_feet",
     "height_inches", "weight_lbs", "x"}

\* The entries of RADX_RAD_TO_RADX_GLOBAL for these fields.
RADX_RAD_TO_RADX_GLOBAL ==
    "race" :> "nih_race" @@ "fever" :> "nih_fever_chills1" @@ "chills" :> "nih_fever_chills2"
    @@ "nausea_vomiting" :> "nih_nausea_vomiting_diarrhea1"
    @@ "diarrhea" :> "nih_nausea_vomiting_diarrhea2"
    @@ "height_feet" :> "nih_height1" @@ "height_inches" :> "nih_height2"
    @@ "weight_lbs" :> "nih_weight"

RADX_RAD_COMBINED_TO_RADX_GLOBAL ==
    "fever" :> "nih_fever_chills" @@ "chills" :> "nih_fever_chills"
    @@ "nausea_vomiting" :> "nih_nausea_vomiting_diarrhea"
    @@ "diarrhea" :> "nih_nausea_vomiting_diarrhea"
    @@ "height_feet" :> "nih_height" @@ "height_inches" :> "nih_height"
    @@ "weight_lbs" :> "nih_weight"

\* Series.replace / DataFrame.rename with a dict: other names are kept.
replace_names(names, mapping) ==
    {IF n \in DOMAIN mapping THEN mapping[n] ELSE n : n \in names}

contains_min_cdes(ids) == ids \cap DOMAIN RADX_RAD_TO_RADX_GLOBAL # {}

convert_height_to_inches(columns) ==
    IF "nih_height1" \in columns /\ "nih_height2" \in columns
    THEN (columns \ {"nih_height1", "nih_height2"}) \cup {"nih_height"}
    ELSE columns

combine_yes_no_cdes(columns, cde, cde1, cde2) ==
    IF cde1 \in columns \/ cde2 \in columns
    THEN (columns \ {cde1, cde2}) \cup {cde}
    ELSE columns

\* The columns of the data frame returned by convert_min_to_global_data.
global_data_columns(columns) ==
    LET renamed == replace_names(columns, RADX_RAD_TO_RADX_GLOBAL)
        height == convert_height_to_inches(renamed)
        fever == combine_yes_no_cdes(height, "nih_fever_chills",
                                     "nih_fever_chills1", "nih_fever_chills2")
    IN  combine_yes_no_cdes(fever, "nih_nausea_vomiting_diarrhea",
                            "nih_nausea_vomiting_diarrhea1",
                            "nih_nausea_vomiting_diarrhea2")

\* The Id column of the dictionary returned by convert_min_to_global_dict.
convert_min_to_global_dict(ids) ==
    replace_names(replace_names(ids, RADX_RAD_COMBINED_TO_RADX_GLOBAL),
                  RADX_RAD_TO_RADX_GLOBAL)

\* TRUE when global_data_dict_matcher raises its ValueError.
global_data_dict_matcher(data_fields, ids) == ids \cap data_fields # ids

GlobalInputs ==
    [op : {"global"}, fields : SUBSET GlobalFields, columns : {{}}, ids : {{}},
     raised : {FALSE}, done : {FALSE}]

InitGlobal ==
    /\ FreshFiles({"ok"})
    /\ harm = NoHarm
    /\ chk \in GlobalInputs

\* step1, step2 and step3 on one dataset whose dictionary covers exactly
\* the columns of its data file.
TransformCopy ==
    /\ chk.op = "global" /\ ~chk.done
    /\ contains_min_cdes(chk.fields)
    /\ LET columns == global_data_columns(chk.fields)
           ids == convert_min_to_global_dict(chk.fields)
       IN  chk' = [chk EXCEPT !.columns = columns, !.ids = ids,
                              !.raised = global_data_dict_matcher(columns, ids),
                              !.done = TRUE]
    /\ UNCHANGED <<clock, pre, work, out, run, pc, errs, nruns, wr, trace, visited,
                   skipped, ended, last, hadlog, synced, harm>>

\* Without minimum CDEs no transformcopy file is written.
NoTransformCopy ==
    /\ chk.op = "global" /\ ~chk.done
    /\ ~contains_min_cdes(chk.fields)
    /\ chk' = [chk EXCEPT !.done = TRUE]
    /\ UNCHANGED <<clock, pre, work, out, run, pc, errs, nruns, wr, trace, visited,
                   skipped, ended, last, hadlog, synced, harm>>

NextGlobal == TransformCopy \/ NoTransformCopy

SpecGlobal == InitGlobal /\ [][NextGlobal]_vars

\* ---------------------------------------------------------- set_cardinality
set_cardinality(data_type) == IF data_type = "list" THEN "multiple" ELSE "single"

\* The cardinality of a field as check_data_type takes it (phase 2, step 7)
\* and as convert_dict writes it to the Cardinality column of the codebook.
CardinalityInputs ==
    [op : {"card"}, row : [ftype : ALLOWED_TYPES, choices : ChoiceSamples],
     validated : {""}, written : {""}, done : {"none"}]

InitCardinality ==
    /\ FreshFiles({"ok"})
    /\ harm = NoHarm
    /\ chk \in CardinalityInputs

\* get_dictionary_cardinality for check_data_type.
DetermineCardinality ==
    /\ chk.op = "card" /\ chk.done = "none"
    /\ chk' = [chk EXCEPT !.validated = determine_cardinality(chk.row),
                          !.done = "validated"]
    /\ UNCHANGED <<clock, pre, work, out, run, pc, errs, nruns, wr, trace, visited,
                   skipped, ended, last, hadlog, synced, harm>>

\* dictionary["Cardinality"] = dictionary["Datatype"].apply(set_cardinality)
SetCardinality ==
    /\ chk.op = "card" /\ chk.done = "validated"
    /\ chk' = [chk EXCEPT !.written = set_cardinality(chk.row.ftype), !.done = "written"]
    /\ UNCHANGED <<clock, pre, work, out, run, pc, errs, nruns, wr, trace, visited,
                   skipped, ended, last, hadlog, synced, harm>>

NextCardinality == DetermineCardinality \/ SetCardinality

SpecCardinality == InitCardinality /\ [][NextCardinality]_vars

\* --------------------------------------------- phase 2 and phase 3 runs
\* Runs of phase 2 and phase 3 on project 1, in any order; between the
\* runs time passes, the operator replaces preorigcopy files (a new DICT
\* file may hold choices on which get_enum_values raises) and sets or
\* removes the lock.  chk keeps how the last phase 2 run went for the
\* dataset; the program keeps no such record.
PromoteClasses == {"ok", "x5"}

InitPromote ==
    /\ Fresh(PromoteClasses)
    /\ \A d \in Dirs \ {1} : \A t \in Triples : pre[d][t].q = "ok"

\* How the run that has ended went for the dataset of project 1.
Outcome ==
    IF ended = "abort" THEN "abort"
    ELSE IF skipped[1] # "" THEN "skipped"
    ELSE IF errs # <<>> THEN "errors"
    ELSE IF run.start # 0 THEN "sliced"
    ELSE IF trace \in {<<1, 2, 3, 4, 5, 6, 7>>, <<2, 3, 4, 5, 6, 7>>} THEN "complete"
    ELSE "other"

\* StartRun, noting in chk the outcome of a phase 2 run that has ended.
StartRunAfter(p, reset, rerun, start, end, dirs) ==
    /\ pc = "idle"
    /\ nruns < MaxRuns
    /\ ~(reset /\ rerun)
    /\ p = 3 => ~reset /\ ~rerun
    /\ run' = [phase |-> p, reset |-> reset, rerun |-> rerun, start |-> start,
               end |-> end, dirs |-> dirs, i |-> 1]
    /\ pc' = "loop"
    /\ nruns' = nruns + 1
    /\ errs' = <<>>
    /\ wr' = {}
    /\ trace' = <<>>
    /\ visited' = {}
    /\ skipped' = NoSkips
    /\ ended' = "none"
    /\ last' = 0
    /\ hadlog' = FALSE
    /\ chk' = IF run.phase = 2 THEN [op |-> "phase2", outcome |-> Outcome] ELSE chk
    /\ UNCHANGED <<clock, pre, work, out, synced, harm>>

StartPromote ==
    \E p \in 2..3, reset, rerun \in BOOLEAN, start \in Starts, end \in Ends :
        StartRunAfter(p, reset, rerun, start, end, <<1>>)

NextPromote ==
    \/ StartPromote
    \/ RunEnd
    \/ Phase2
    \/ Phase3
    \/ Tick
    \/ ToggleLock(1)
    \/ \E t \in Triples, k \in KindSet, q \in PromoteClasses : TouchSource(1, t, k, q)

SpecPromote == InitPromote /\ [][NextPromote]_vars

\* ==================================================================
\* Properties
\* ==================================================================

\* The action leaves the directories of dataset d as they are.
NoWrite(d) == d \notin wr' /\ work'[d] = work[d] /\ out'[d] = out[d]

\* ------------------------------------------------------------------ C1
\* C1 as stated: in every phase and every mode, while lock.txt is in the
\* work directory of a dataset no step of a run creates, overwrites or
\* deletes a file of its work, origcopy or transformcopy directory.
C1_LockHaltsAllWrites ==
    [][\A d \in Dirs : (Running /\ work[d].lock) => NoWrite(d)]_vars

\* C1 as the code has it: the lock halts the writes of phase 1 and of
\* phase 2 without -rerun.  (Phase 2 with -rerun ignores lock.txt, phase 3
\* never looks for it.)
C1_LockHaltsPhase1AndPhase2 ==
    [][\A d \in Dirs :
        (/\ Running
         /\ work[d].lock
         /\ run.phase = 1 \/ (run.phase = 2 /\ ~run.rerun)) => NoWrite(d)]_vars

\* A phase 2 run has come to a locked dataset and skipped it.
C1_Witness ==
    \E d \in Dirs : skipped[d] = "lock" /\ work[d].lock /\ run.phase = 2 /\ ~run.rerun

\* ------------------------------------------------------------------ C2
\* An error file of an earlier phase blocks dataset d in the running phase.
UpstreamBlocked(d) ==
    \/ run.phase \in {2, 3} /\ work[d].log[1] # <<>>
    \/ run.phase = 3 /\ work[d].log[2] # <<>>

\* C2: when phase1_errors.csv exists phase 2 and phase 3, and when
\* phase2_errors.csv exists phase 3, execute no step for the dataset and
\* write nothing to its directories.
C2_UpstreamErrorsBlock ==
    [][\A d \in Dirs :
        (Running /\ UpstreamBlocked(d)) =>
            /\ NoWrite(d)
            /\ (run.i <= Len(run.dirs) /\ Cur = d) =>
                   trace' = trace /\ d \notin visited' /\ pc' = "loop"]_vars

\* Phase 3 has skipped a dataset because of the error file phase 2 left.
C2_Witness ==
    \E d \in Dirs :
        skipped[d] = "p2" /\ run.phase = 3 /\ work[d].log[2] # <<>> /\ trace = <<>>

\* ------------------------------------------------------------------ C3
\* The number of the phase 2 step about to run, 0 outside the steps.
PcStep ==
    CASE pc = "s1" -> 1 [] pc = "s2" -> 2 [] pc = "s3" -> 3 [] pc = "s4" -> 4
      [] pc = "s5" -> 5 [] pc = "s6" -> 6 [] pc = "s7" -> 7 [] OTHER -> 0

\* C3: within a phase 2 run over a dataset the steps run in the order
\* 1, 2, ..., 7 (from 2 with -rerun); a step after step k, k in 2..5, starts
\* only with an empty error list; a list that is non-empty after a step is
\* in the error file and no later step runs for the dataset.
C3_StepOrder ==
    run.phase = 2 =>
        /\ \A i \in 1..Len(trace) : trace[i] = i + (IF run.rerun THEN 1 ELSE 0)
        /\ PcStep # 0 => PcStep = Len(trace) + 1 + (IF run.rerun THEN 1 ELSE 0)
        /\ PcStep > 2 => errs = <<>>
        /\ (errs # <<>> /\ ended # "abort") =>
               /\ pc \in {"loop", "idle"}
               /\ last # 0
               /\ work[last].log[2] = errs
               /\ trace # <<>>
               /\ trace[Len(trace)] \in 2..5

\* Step 4 has left a non-empty list: the run is back at the loop.
C3_Witness ==
    /\ run.phase = 2
    /\ pc = "loop"
    /\ trace = <<1, 2, 3, 4>>
    /\ errs # <<>>
    /\ work[last].log[2] = errs

\* ------------------------------------------------------------------ C4
\* Dataset d is open to the running phase: not locked, not blocked by an
\* error file of an earlier phase.
Eligible(d) == ~work[d].lock /\ ~UpstreamBlocked(d)

\* C4 as stated: whatever the earlier datasets of the list produced, a run
\* processes every dataset of its list that is neither locked nor blocked.
C4_EveryEligibleProcessed ==
    (pc = "idle" /\ ended # "none") =>
        \A d \in Range(run.dirs) : Eligible(d) => d \in visited

\* C4 as the code has it: a run that is not aborted (sys.exit, an uncaught
\* exception) ends, and has then processed every dataset that is neither
\* locked nor blocked, those excepted whose work directory phase 2 -reset
\* could not remove; a step writes only to the dataset being processed.
C4_ErrorsDoNotStopRun ==
    /\ [](pc = "idle" /\ ended = "done" =>
            \A d \in Range(run.dirs) :
                (Eligible(d) /\ ~(run.phase = 2 /\ run.reset /\ ~work[d].dir))
                    => d \in visited)
    /\ [][\A d \in Dirs :
            (Running /\ (run.i > Len(run.dirs) \/ d # Cur)) => NoWrite(d)]_vars
    /\ (Running ~> ~Running)

\* A phase 2 run has ended; a dataset failed in it and a later dataset of
\* the list was processed.
C4_Witness ==
    /\ pc = "idle" /\ ended = "done" /\ run.phase = 2
    /\ \E i, j \in 1..Len(run.dirs) :
        /\ i < j
        /\ run.dirs[i] \in visited /\ work[run.dirs[i]].log[2] # <<>>
        /\ run.dirs[j] \in visited

\* ------------------------------------------------------------------ C5
\* C5: once a phase is done with a dataset it did not skip, the error file
\* of the phase exists if and only if the run accumulated at least one
\* record for the dataset, and then holds these records; an error file of an
\* earlier run is gone after a run without records.  (A run that is
\* aborted inside the dataset is not done with it.)
C5_ErrorLogIffErrors ==
    (last # 0 /\ pc \in {"loop", "idle"} /\ ended # "abort") =>
        /\ (work[last].log[run.phase] # <<>>) <=> (errs # <<>>)
        /\ work[last].log[run.phase] = errs

\* A run is done, without a record, with a dataset that had an error file
\* of the phase when the run came to it.
C5_Witness ==
    /\ last # 0 /\ pc = "loop" /\ ended = "none"
    /\ hadlog
    /\ errs = <<>>
    /\ work[last].log[run.phase] = <<>>
    /\ run.phase = 2

\* ------------------------------------------------------------------ C6
\* The files of the dataset the run is done with that an ERROR record of
\* the run names.
FailedFiles ==
    {<<errs[i].t, errs[i].k>> : i \in {n \in 1..Len(errs) : errs[n].severity = "ERROR"}}

\* C6 as stated (first part): when a phase 2 run has stopped on a dataset
\* because files failed validation, every file that failed has a tofix
\* sibling in the work directory.
C6_FailedFileGetsTofix ==
    (run.phase = 2 /\ pc = "loop" /\ last # 0) =>
        \A x \in FailedFiles : x \in work[last].tofix

\* ------------------------------------------------------------------ C7
\* The source of work file <<t, k>> of the current dataset is newer than it.
SourceNewer(t, k) ==
    \/ work[Cur].f[t].m[k] = Absent
    \/ pre[Cur][t].m[k] > work[Cur].f[t].m[k]

\* C7: step 1 copies a preorigcopy file of its slice exactly when the work
\* file is absent or the source's mtime is strictly later, and touches no
\* other file; so step 1 run again right after step 1 copies nothing, and
\* a later step 1 copies no file that an earlier step 1 has handled, whose
\* source was not replaced since and whose work copy is still there.
C7_Step1Idempotent ==
    /\ [][pc = "s1" =>
            \A t \in Triples, k \in KindSet :
                IF t \in Step1Slice /\ SourceNewer(t, k)
                THEN work'[Cur].f[t].m[k] = clock
                ELSE work'[Cur].f[t].m[k] = work[Cur].f[t].m[k]]_vars
    /\ []((run.phase = 2 /\ pc = "s2" /\ trace = <<1>>) => step1(Cur) = work[Cur])
    /\ [][pc = "s1" =>
            \A t \in Step1Slice, k \in KindSet :
                (<<t, k>> \in synced[Cur] /\ work[Cur].f[t].m[k] # Absent) =>
                    /\ work'[Cur].f[t].m[k] = work[Cur].f[t].m[k]
                    /\ k = "DICT" => work'[Cur].f[t].q = work[Cur].f[t].q]_vars

\* Step 1 of a later run has just passed, at a later time, over a triple
\* that is in the work directory and whose sources were never replaced:
\* it copied none of its files.
C7_Witness ==
    /\ run.phase = 2 /\ pc = "s2" /\ trace = <<1>> /\ nruns > 1 /\ clock > 0
    /\ \E t \in Step1Slice : \A k \in KindSet :
        /\ pre[Cur][t].m[k] = 0
        /\ work[Cur].f[t].m[k] # Absent
        /\ work[Cur].f[t].m[k] < clock

\* ------------------------------------------------------------------ C8
\* No source of triple t of the current dataset is newer than its work copy.
NoSourceNewer(t) == \A k \in KindSet : ~SourceNewer(t, k)

C9_OneRowPerColumnInOrder ==
    harm.done => [i \in 1..Len(harm.out) |-> harm.out[i].id] = harm.data

\* A call on a table of several columns whose DICT file has a row for a
\* field that is no data column and a row for a data column that the
\* reference dictionary defines too.
C9_Witness ==
    /\ harm.done
    /\ Len(harm.data) > 1
    /\ \E i \in 1..Len(harm.dict) : harm.dict[i].id \notin Range(harm.data)
    /\ \E i \in 1..Len(harm.dict) :
        harm.dict[i].id \in Range(harm.data) /\ harm.dict[i].id \in Ids(harm.ref)

\* ----------------------------------------------------------------- C10
\* The records of the given severity the call appended for the DICT file.
HarmRecords(sev) ==
    {i \in 1..Len(harm.errs) : harm.errs[i].severity = sev /\ harm.errs[i].k = "DICT"}

\* C10: for a data column that neither the DICT file nor the reference
\* dictionary defines, the written dictionary has exactly one row, all of
\* whose other columns are empty; the call appends one WARN record for the
\* DICT file when there is such a column (with an ERROR record), none
\* otherwise.
C10_PlaceholderAndWarn ==
    harm.done =>
        /\ \A c \in MissingDataElements(harm) :
            /\ Cardinality({i \in 1..Len(harm.out) : harm.out[i].id = c}) = 1
            /\ \A i \in 1..Len(harm.out) : harm.out[i].id = c => harm.out[i].attr = ""
        /\ Cardinality(HarmRecords("WARN")) = (IF MissingDataElements(harm) = {} THEN 0 ELSE 1)
        /\ Cardinality(HarmRecords("ERROR")) = Cardinality(HarmRecords("WARN"))

\* A call on a table with two columns defined nowhere and one column the
\* DICT file defines.
C10_Witness ==
    /\ harm.done
    /\ Cardinality(MissingDataElements(harm)) = 2
    /\ \E c \in Range(harm.data) : c \in Ids(harm.dict)
    /\ Cardinality(HarmRecords("WARN")) = 1

\* ----------------------------------------------------------------- C11
\* Step 4 is about to run on a slice with a triple whose DICT file lacks
\* data columns.
Step4FindsMissing ==
    /\ run.phase = 2 /\ pc = "s4"
    /\ \E t \in Range(WorkSlice(Cur)) : work[Cur].f[t].q = "e4"

OutIds == [i \in 1..Len(harm.out) |-> harm.out[i].id]

\* C12: when the field identifiers of the DICT file are exactly the data
\* columns, whatever the reference dictionary holds, the written dictionary
\* has the same field set, one row each, in the order of the data columns,
\* and the call appends no record.
C12_RoundTrip ==
    (harm.done /\ Ids(harm.dict) = Range(harm.data)) =>
        /\ Range(OutIds) = Ids(harm.dict)
        /\ OutIds = harm.data
        /\ harm.errs = <<>>

\* A call on a two-column table whose DICT file has the two fields in the
\* other order and whose reference dictionary defines one of them.
C12_Witness ==
    /\ harm.done
    /\ Len(harm.data) = 2 /\ Len(harm.dict) = 2
    /\ Ids(harm.dict) = Range(harm.data)
    /\ harm.dict[1].id = harm.data[2]
    /\ Ids(harm.ref) \cap Range(harm.data) # {}
    /\ OutIds = harm.data

\* ----------------------------------------------------------------- C13
\* The data columns that both the reference dictionary and the DICT file
\* define.
DefinedTwice == Range(harm.data) \cap Ids(harm.ref) \cap Ids(harm.dict)

\* The rows the written dictionary has for field c.
OutRows(c) == {harm.out[i] : i \in {n \in 1..Len(harm.out) : harm.out[n].id = c}}

\* C13 as stated: for a data column that the reference dictionary and the
\* DICT file both define, the row kept is the row of the DICT file.
C13_DatasetRowRetained ==
    harm.done => \A c \in DefinedTwice : OutRows(c) = {Row(c, "ds")}

\* C13 as the code has it: the reference rows come first and the first row
\* of an id is kept, so the row kept for such a column is the reference
\* row; the row of the DICT file is kept only for a column the reference
\* dictionary does not define.
C13_ReferenceRowRetained ==
    harm.done =>
        \A c \in Range(harm.data) :
            /\ c \in Ids(harm.ref) => OutRows(c) = {Row(c, "ref")}
            /\ (c \notin Ids(harm.ref) /\ c \in Ids(harm.dict)) => OutRows(c) = {Row(c, "ds")}

\* A call with a data column defined in both dictionaries.
C13_Witness ==
    /\ harm.done
    /\ DefinedTwice # {}
    /\ \E c \in DefinedTwice : Row(c, "ref") \in OutRows(c)

\* ------------------------------------------------------------------ C14
\* The records of check_data_type about the type of the column, and the one
\* about its cardinality.
TypeErrors ==
    {i \in 1..Len(chk.types) :
        chk.types[i].message.text \in {"Invalid data type in column",
                                       "Mixed data types in column",
                                       "String values found in column"}}

CardinalityErrors ==
    {i \in 1..Len(chk.types) :
        chk.types[i].message.text = "Multiple values are not allowed in column"}

\* A value is blank if it is empty or one of the null values.
Blank(cell) == Len(cell) = 1 /\ cell[1] \in {""} \cup NULL_VALUES

ParsesAsInteger(item) == item \in {"1"}

\* The column holds a non-blank value without "|" that is not an integer.
HasNonInteger == \E c \in chk.cells : Len(c) = 1 /\ ~Blank(c) /\ ~ParsesAsInteger(c[1])

\* Every non-blank value of the column is an integer or made of integers.
AllIntegers ==
    \A c \in chk.cells : Blank(c) \/ \A i \in 1..Len(c) : ParsesAsInteger(c[i])

DeclaredInteger == chk.op = "check" /\ chk.done /\ convert_data_type(chk.row) = "integer"

\* C14 as stated: a column whose effective declared type is integer gets
\* exactly one ERROR record from check_data_type if it holds a non-blank
\* value without "|" that does not parse as an integer, and none if all its
\* non-blank values parse as integers.
C14_ExactlyOneError ==
    DeclaredInteger =>
        /\ HasNonInteger => Cardinality(TypeErrors) = 1
        /\ AllIntegers => Cardinality(TypeErrors) = 0

\* C14, what check_data_type does: for a column not named "type" or
\* "cardinality" whose effective declared type is integer, a non-blank value
\* without "|" that does not parse as an integer gives an ERROR: one record if the
\* non-blank values of the column have a single type (integer and float
\* together count as float), two records (the mixed types, the string values)
\* if they have several; integers only give none.  A column named "type" or
\* "cardinality" is not checked and gets no record.
C14_OffendingColumnReported ==
    DeclaredInteger =>
        IF chk.column \in {"type", "cardinality"}
        THEN chk.types = <<>>
        ELSE /\ HasNonInteger =>
                    Cardinality(TypeErrors) =
                        (IF Cardinality(get_column_type(remove_na(chk.cells))) = 1
                         THEN 1 ELSE 2)
             /\ AllIntegers => Cardinality(TypeErrors) = 0
             /\ \A i \in 1..Len(chk.types) : chk.types[i].severity = "ERROR"

\* An integer column with an integer and a string has got two records.
C14_Witness ==
    /\ DeclaredInteger
    /\ chk.column = "a"
    /\ chk.cells = {<<"1">>, <<"X">>}
    /\ Cardinality(TypeErrors) = 2

\* ------------------------------------------------------------------ C15
\* The types check_data_type observes in the column and the type it takes
\* from the dictionary.
ObservedTypes == get_column_type(remove_na(chk.cells))

DeclaredType == convert_data_type(chk.row)

\* A record about the type of the column that names the column, the declared
\* type and the observed types.
NamesColumnAndTypes ==
    \E i \in TypeErrors :
        /\ chk.types[i].severity = "ERROR"
        /\ chk.types[i].message.column = chk.column
        /\ chk.types[i].message.dict = DeclaredType
        /\ chk.types[i].message.data = ObservedTypes

Reconciled ==
    \/ ObservedTypes = {DeclaredType}
    \/ DeclaredType = "string" /\ ObservedTypes = {"integer"}
    \/ DeclaredType = "float" /\ ObservedTypes = {"integer"}

Reconciliation ==
    /\ Cardinality(ObservedTypes) = 1 => (TypeErrors = {} <=> Reconciled)
    /\ (Cardinality(ObservedTypes) = 1 /\ ~Reconciled) => NamesColumnAndTypes
    /\ (Cardinality(ObservedTypes) > 1 /\ DeclaredType # "string") => NamesColumnAndTypes
    /\ ObservedTypes = {} => TypeErrors = {}

\* C15 as stated: for every column, a single observed type gives no error
\* iff it equals the declared effective type, or is integer where string or
\* float is declared; every other single type, and several observed types
\* where the declared type is not string, give an ERROR naming the column
\* and both types; blank values only give no type error.
C15_ReconciliationEveryColumn ==
    (chk.op = "check" /\ chk.done) => Reconciliation

\* C15, what check_data_type does: the same for every column not named
\* "type" or "cardinality"; a column of one of these names gets no record.
C15_Reconciliation ==
    (chk.op = "check" /\ chk.done) =>
        IF chk.column \in {"type", "cardinality"}
        THEN chk.types = <<>>
        ELSE Reconciliation

\* Integers in a column declared text passed; the column has no record.
C15_Witness ==
    /\ chk.op = "check" /\ chk.done
    /\ chk.column = "a"
    /\ chk.row.ftype = "text"
    /\ DeclaredType = "string"
    /\ ObservedTypes = {"integer"}
    /\ chk.types = <<>>

\* ------------------------------------------------------------------ C16
HasPipe == \E c \in chk.cells : Len(c) > 1

CardinalityRule ==
    CardinalityErrors # {} <=> (HasPipe /\ chk.row.ftype \notin {"list", "checkbox"})

\* C16 as stated: check_data_type records the cardinality ERROR for a data
\* column if and only if one of its cells contains "|" and the field type
\* the dictionary declares for it is neither list nor checkbox.
C16_CardinalityEveryColumn ==
    (chk.op = "check" /\ chk.done) => CardinalityRule

\* C16, what check_data_type does: the same for every column not named
\* "type" or "cardinality", with one record per column; a column of one of
\* these names gets no record, whatever its cells hold.
C16_Cardinality ==
    (chk.op = "check" /\ chk.done) =>
        IF chk.column \in {"type", "cardinality"}
        THEN CardinalityErrors = {}
        ELSE /\ CardinalityRule
             /\ Cardinality(CardinalityErrors) <= 1
             /\ \A i \in CardinalityErrors :
                    chk.types[i].severity = "ERROR" /\ chk.types[i].message.column = chk.column

\* A text column with a piped cell has got the record, a checkbox column
\* with the same cell would not.
C16_Witness ==
    /\ chk.op = "check" /\ chk.done
    /\ chk.column = "a"
    /\ chk.row.ftype = "text"
    /\ <<"1", "X">> \in chk.cells
    /\ Cardinality(CardinalityErrors) = 1

\* ------------------------------------------------------------------ C17
\* The segments of the form <int>, <label> and <UPPERCASE letters>, <label>,
\* and the code each of them begins with.
IntegerCoded == {S_1, S_2}

LetterCoded == {S_X, S_Y, S_X2}

LeadingCode(s) ==
    CASE s = S_1 -> "1"
      [] s = S_2 -> "2"
      [] s \in {S_X, S_X2} -> "X"
      [] s = S_Y -> "Y"

\* Segments that are plain tokens, with no code before a comma.
PlainTokens == {T_X, T_Y, T_yes}

MadeOf(S) == \A i \in 1..Len(chk.choices) : chk.choices[i] \in S

\* C17: get_enum_values tries the integer-coded, the letter-coded and the
\* freeform grammar in this order and the first that matches determines the
\* allowed values: the integer codes, one per segment, of a string of
\* <int>, <label> segments; the letter codes of a string of
\* <UPPERCASE letters>, <label> segments; the trimmed tokens of another
\* pipe-delimited list.
C17_GrammarDeterminesAllowed ==
    (chk.op = "enum" /\ chk.done) =>
        /\ MadeOf(IntegerCoded) =>
            /\ ~chk.raised
            /\ chk.values = [i \in 1..Len(chk.choices) |-> LeadingCode(chk.choices[i])]
        /\ MadeOf(LetterCoded) =>
            /\ ~chk.raised
            /\ chk.values = [i \in 1..Len(chk.choices) |-> LeadingCode(chk.choices[i])]
        /\ MadeOf(PlainTokens) =>
            /\ ~chk.raised
            /\ chk.values = [i \in 1..Len(chk.choices) |-> chk.choices[i].tok]

\* ------------------------------------------------------------------ C19
\* get_enum_values has returned a non-empty list or it has raised.
ReturnsOrRaises ==
    (chk.op = "enum" /\ chk.done /\ chk.choices # NoChoices) =>
        (chk.raised <=> chk.values = <<>>)

\* Step 5 is about to run on a slice with a DICT file on whose choices
\* get_enum_values raises.
Step5Raises ==
    /\ run.phase = 2 /\ pc = "s5"
    /\ FirstRaise(work[Cur], WorkSlice(Cur)) <= Len(WorkSlice(Cur))

PipelineVars == <<clock, pre, work, out, run, pc, errs, nruns, wr, trace, visited,
                  skipped, ended, last, hadlog, synced>>

\* C19: on a non-empty choices string get_enum_values returns a non-empty
\* list of allowed values or raises; when it raises in step 5 of phase 2 the
\* run ends there: the error file of the dataset is left as it was, no other
\* dataset is written or entered, and nothing runs until a new run is
\* started.
C19_RaiseAbortsRun ==
    /\ []ReturnsOrRaises
    /\ [][(Step5Raises /\ PipelineVars' # PipelineVars) =>
            /\ pc' = "idle" /\ ended' = "abort"
            /\ run' = run /\ visited' = visited
            /\ work'[Cur].log = work[Cur].log
            /\ \A d \in Dirs \ {Cur} : NoWrite(d)]_vars
    /\ [][(pc = "idle" /\ ended = "abort") =>
            (nruns' = nruns + 1 \/ UNCHANGED PipelineVars)]_vars

\* A run over projects 1 and 2 has ended in step 5 of project 1, whose
\* choices string get_enum_values cannot parse: project 2 was not entered
\* and project 1 has no phase 2 error file.
C19_Witness ==
    /\ chk.op = "enum" /\ chk.done /\ chk.raised
    /\ chk.choices = <<S_empty, T_X>>
    /\ ended = "abort" /\ pc = "idle"
    /\ run.phase = 2 /\ run.dirs = <<1, 2>>
    /\ last = 1 /\ 2 \notin visited
    /\ work[1].log[2] = <<>>
    /\ trace = <<1, 2, 3, 4, 5>>

\* ------------------------------------------------------------------ C18
\* check_enums has run for the column: its row has choices, for which
\* get_enum_values returned the allowed values.
EnumsChecked ==
    chk.op = "check" /\ chk.done /\ chk.row.choices # NoChoices /\ ~chk.raised

AllowedSet == {<<v>> : v \in Range(get_enum_values(chk.row.choices).values)}

\* The non-blank values of the column, and what is compared with the allowed
\* values: the tokens of the values in a list or checkbox column, the whole
\* values in any other.
Observed == {c \in chk.cells : ~Blank(c)}

Compared ==
    IF chk.row.ftype \in {"list", "checkbox"}
    THEN UNION {{<<c[i]>> : i \in 1..Len(c)} : c \in Observed}
    ELSE Observed

\* The record check_enums makes for the column lists exactly the compared
\* values that are not allowed; there is none if all are allowed.
OneErrorListingOffenders ==
    IF Compared \subseteq AllowedSet
    THEN chk.enums = <<>>
    ELSE /\ Len(chk.enums) = 1
         /\ chk.enums[1].severity = "ERROR"
         /\ chk.enums[1].k = "DATA"
         /\ chk.enums[1].message.column = chk.column
         /\ chk.enums[1].message.data = Compared \ AllowedSet

Listed == UNION {chk.enums[i].message.data : i \in 1..Len(chk.enums)}

\* C18 as stated: for a dictionary row with choices, check_enums records
\* exactly one ERROR on the DATA file if the non-blank values of the column
\* (their tokens if the field type is list or checkbox) are not all allowed,
\* and the record lists exactly the values that are not; it records nothing
\* if they are all allowed, and the blank value is never listed.
C18_BlankNeverListed ==
    EnumsChecked => (OneErrorListingOffenders /\ <<"">> \notin Listed)

\* C18 amended: the same, except that only blank cells are left out: in a
\* list or checkbox column the empty token of a piped value ("1|") is
\* compared like any other token and listed if it is not allowed; in any
\* other column the blank value is never listed.
C18_OneErrorListingOffenders ==
    EnumsChecked =>
        /\ OneErrorListingOffenders
        /\ <<"">> \in Listed <=>
                /\ chk.row.ftype \in {"list", "checkbox"}
                /\ \E c \in Observed : \E i \in 1..Len(c) : c[i] = ""
                /\ <<"">> \notin AllowedSet

\* A list column with the allowed values X and Y holds a blank value and
\* "X|1": the one record lists the token 1 and nothing else.
C18_Witness ==
    /\ EnumsChecked
    /\ chk.row.ftype = "list"
    /\ chk.row.choices = <<T_X, T_Y>>
    /\ chk.cells = {<<"">>, <<"X", "1">>}
    /\ Len(chk.enums) = 1
    /\ chk.enums[1].message.data = {<<"1">>}

\* ------------------------------------------------------------------ C20
FinalErrors(k) == {i \in 1..Len(chk.errs) : chk.errs[i].severity = "ERROR" /\ chk.errs[i].k = k}

\* C20: the final consistency check of phase 3 records an ERROR naming the
\* directory if and only if the number of origcopy files is not a multiple
\* of 3, or the number of transformcopy files is not a multiple of 3, or
\* fewer files were promoted than the dataset has preorigcopy files (6
\* origcopy files against 9 preorigcopy files is an ERROR); 9/9/9 passes.
C20_ErrorIffCountsInvalid ==
    (chk.op = "final" /\ chk.done) =>
        /\ FinalErrors("ORIGCOPY") # {} <=> (chk.oc % 3 # 0 \/ chk.oc < chk.pre)
        /\ FinalErrors("TRANSFORMCOPY") # {} <=> chk.tc % 3 # 0

\* C20, what phase 3 does: the number of preorigcopy files plays no part;
\* an ERROR is recorded for the origcopy directory iff its number of files
\* is not a multiple of 3, and likewise for the transformcopy directory.
C20_MultiplesOfThreeOnly ==
    (chk.op = "final" /\ chk.done) =>
        /\ FinalErrors("ORIGCOPY") # {} <=> chk.oc % 3 # 0
        /\ FinalErrors("TRANSFORMCOPY") # {} <=> chk.tc % 3 # 0

\* 6 origcopy files against 9 preorigcopy files have passed the check.
C20_Witness ==
    /\ chk.op = "final" /\ chk.done
    /\ chk.pre = 9 /\ chk.oc = 6 /\ chk.tc = 6
    /\ chk.errs = <<>>

\* ------------------------------------------------------------------ C21
\* Tool i was run and an ERROR record was made for it.
ToolFailed(i) ==
    \E n \in 1..Len(chk.errs) :
        chk.errs[n].severity = "ERROR" /\ chk.errs[n].message = <<Tools[i], "failed">>

\* The tools run so far, each once.
RunOnce ==
    \A i \in 1..3 : Cardinality({n \in 1..Len(chk.calls) : chk.calls[n] = i}) <= 1

\* C21: a tool that ends with a non-zero exit code is a stage failure (an
\* ERROR record, the dataset halts), a tool that ends with exit code zero is
\* not, and a failed tool is not run again.
C21_NonZeroExitFails ==
    chk.op = "tools" =>
        /\ \A n \in 1..Len(chk.calls) :
            ToolFailed(chk.calls[n]) <=> chk.results[chk.calls[n]].exit # 0
        /\ (\E n \in 1..Len(chk.calls) : chk.results[chk.calls[n]].exit # 0) => chk.valid = "false"
        /\ RunOnce

\* C21, what the phase does: a tool is a stage failure iff it wrote to
\* stderr, whatever its exit code; the first failure halts the dataset and
\* no tool is run twice.
C21_StderrFails ==
    chk.op = "tools" =>
        /\ \A n \in 1..Len(chk.calls) :
            ToolFailed(chk.calls[n]) <=> chk.results[chk.calls[n]].stderr # ""
        /\ (\E n \in 1..Len(chk.calls) : chk.results[chk.calls[n]].stderr # "") <=> chk.valid = "false"
        /\ chk.valid = "false" => chk.step = Len(chk.calls) + 1 /\ ToolFailed(chk.calls[Len(chk.calls)])
        /\ RunOnce

\* The dictionary validator ended with exit code 1 and an empty stderr: the
\* triple passed all three tools.
C21_Witness ==
    /\ chk.op = "tools"
    /\ chk.results[2] = [exit |-> 1, stderr |-> ""]
    /\ chk.valid = "true"
    /\ chk.errs = <<>>

\* ------------------------------------------------------------------ C22
\* The set of entries consists exactly of complete triples.
CompleteTriples(S) ==
    \A f \in S : f.kind \in KindSet /\ \A k \in KindSet : Entry(f.stem, k) \in S

Flagged ==
    /\ \E e \in chk.errs : e.severity = "ERROR"
    /\ chk.log

\* C22 as stated: file_is_missing returns no error for a preorigcopy
\* directory iff the directory consists exactly of complete DATA/DICT/META
\* triples; otherwise an ERROR is recorded and phase1_errors.csv is written.
C22_FlaggedIffIncomplete ==
    (chk.op = "missing" /\ chk.done) =>
        /\ chk.errs = {} <=> CompleteTriples(chk.directory)
        /\ ~CompleteTriples(chk.directory) => Flagged

\* C22 amended: the same of the entries whose names do not begin with a dot;
\* the others are not seen.
C22_FlaggedIffVisibleIncomplete ==
    (chk.op = "missing" /\ chk.done) =>
        /\ chk.errs = {} <=> CompleteTriples(glob_all(chk.directory))
        /\ ~CompleteTriples(glob_all(chk.directory)) => Flagged
        /\ chk.log <=> chk.errs # {}

\* A directory with one complete triple and the DICT and META file of
\* another, whose DATA file is missing, has been flagged.
C22_Witness ==
    /\ chk.op = "missing" /\ chk.done
    /\ chk.directory = {Entry(1, k) : k \in KindSet} \cup {Entry(2, "DICT"), Entry(2, "META")}
    /\ Flagged

\* ------------------------------------------------------------------ C23
HasTofix == \E i \in 1..Len(chk.path.prefix) : chk.path.prefix[i] = "_tofix"

PrefixHasFixed == \E i \in 1..Len(chk.path.prefix) : chk.path.prefix[i] = "_fixed"

NoFiles23 == chk.input = None /\ chk.output = None

\* C23 as stated: for an existing input P_n.csv or P_n_fixed.csv the output
\* is P_(n+1).csv, so fixed and original inputs have the same output, one
\* version above; for a path containing "_tofix" or one that is not an
\* existing file there is no input and no output.
C23_NextVersionOfP ==
    (chk.op = "next" /\ chk.done) =>
        IF HasTofix \/ ~chk.isfile
        THEN NoFiles23
        ELSE /\ chk.input = chk.path
             /\ chk.output = Path(chk.path.prefix, chk.path.ver + 1, FALSE)

\* C23 amended: the same where P does not contain "_fixed"; where it does,
\* the output of P_n_fixed.csv loses every "_fixed" of P and differs from
\* the output of P_n.csv, which keeps them.  The version is n + 1 in both.
C23_NextVersion ==
    (chk.op = "next" /\ chk.done) =>
        IF HasTofix \/ ~chk.isfile
        THEN NoFiles23
        ELSE /\ chk.input = chk.path
             /\ chk.output.ver = chk.path.ver + 1
             /\ ~chk.output.fixed
             /\ chk.output.prefix =
                    (IF chk.path.fixed /\ PrefixHasFixed
                     THEN SelectSeq(chk.path.prefix, LAMBDA x : x # "_fixed")
                     ELSE chk.path.prefix)
             /\ (chk.path.fixed /\ PrefixHasFixed) => chk.output.prefix # chk.path.prefix

\* The existing file a_a_1_fixed.csv has given a_a_2.csv.
C23_Witness ==
    /\ chk.op = "next" /\ chk.done /\ chk.isfile
    /\ chk.path = Path(<<"a", "a">>, 1, TRUE)
    /\ chk.input = chk.path
    /\ chk.output = Path(<<"a", "a">>, 2, FALSE)

\* ------------------------------------------------------------------ C24
IntegerCodedChoices == \E i \in 1..Len(chk.row.choices) : chk.row.choices[i].int # ""

LetterCodedChoices == \E i \in 1..Len(chk.row.choices) : chk.row.choices[i].str # ""

PipeList == Len(chk.row.choices) > 1

\* The effective type where "unchanged" is the set of nominal types that
\* pass through when the choices decide nothing.
EffectiveType(unchanged) ==
    IF IntegerCodedChoices THEN "integer"
    ELSE IF LetterCodedChoices \/ PipeList THEN "string"
    ELSE IF chk.row.ftype \in unchanged THEN chk.row.ftype
    ELSE "string"

ParsesAsFloat(item) == item \in {"1", "1.5"}

\* The class of a value without "|" as the claim gives it.
Classify(item) ==
    IF item = "" THEN "blank"
    ELSE IF ParsesAsInteger(item) THEN "integer"
    ELSE IF ParsesAsFloat(item) THEN "float"
    ELSE "string"

\* The class of a cell: the union of the classes of its sub-values, with
\* {integer, float} collapsed to float and string when several remain.
ClassifyCell(value, class(_)) ==
    IF Len(value) = 1 THEN class(value[1])
    ELSE LET types == {class(value[i]) : i \in 1..Len(value)}
             t2 == IF types = {"integer", "float"} THEN {"float"} ELSE types
         IN  IF Cardinality(t2) > 1 THEN "string" ELSE CHOOSE t \in t2 : TRUE

\* The class of a sub-value as determine_type gives it: a null value is its
\* own class.
ClassifyOrNull(item) == IF item \in NULL_VALUES THEN item ELSE Classify(item)

\* C25 as stated: every cell value is classified as exactly one of blank,
\* integer, float, string: blank iff empty, else integer, else float, else
\* string; a piped cell by the union of the classes of its sub-values.
C25_OneOfFourTypes ==
    (chk.op = "type" /\ chk.done) =>
        /\ chk.type \in {"blank", "integer", "float", "string"}
        /\ chk.type = ClassifyCell(chk.value, Classify)

\* C25 amended: the same, except that a sub-value of a piped cell that is a
\* null value is classified as that null value, so a piped cell whose
\* sub-values are all the same null value gets the null value as its type;
\* every other cell gets one of the four types.
C25_FourTypesOrNull ==
    (chk.op = "type" /\ chk.done) =>
        /\ chk.type = ClassifyCell(chk.value, ClassifyOrNull)
        /\ IF Len(chk.value) > 1 /\ \E n \in NULL_VALUES :
                  \A i \in 1..Len(chk.value) : chk.value[i] = n
           THEN chk.type = chk.value[1]
           ELSE /\ chk.type \in {"blank", "integer", "float", "string"}
                /\ chk.type = ClassifyCell(chk.value, Classify)

\* The piped cell 1|1.5|1 has been classified as a float.
C25_Witness ==
    /\ chk.op = "type" /\ chk.done
    /\ chk.value = <<"1", "1.5", "1">>
    /\ chk.type = "float"

\* ------------------------------------------------------------------ C26
InTable(id) == chk.tiers[id].tier # "none"

\* The cell of the table for the identifier and attribute after the concat.
RefValue(id, a) == concat(chk.tiers, chk.tier2_has_unit)[id][a]

\* The update where "absent" is the set of cells that supply no value.
UpdatedAsIf(absent) ==
    \A id \in 1..MaxIds : \A a \in Attributes :
        chk.updated[id][a] =
            (IF InTable(id) /\ RefValue(id, a) \notin absent
             THEN RefValue(id, a)
             ELSE chk.dictionary[id][a])

\* C26 as stated: an attribute is overwritten only where the table supplies
\* a value; where it supplies none (an empty cell or a missing column) the
\* content of the dataset is kept; rows not in the table are unchanged.
C26_EmptyReferenceKeepsContent ==
    (chk.op = "update" /\ chk.done) => UpdatedAsIf({"", NaN})

\* C26 amended: an attribute is overwritten unless the table's value is NaN,
\* which it is only for a column missing from the tier file of the row; an
\* empty cell of the table is a value and overwrites the content of the
\* dataset with the empty string; rows not in the table are unchanged.
C26_NaNKeepsContent ==
    (chk.op = "update" /\ chk.done) =>
        /\ UpdatedAsIf({NaN})
        /\ \A id \in 1..MaxIds : ~InTable(id) => chk.updated[id] = chk.dictionary[id]
        /\ \A id \in 1..MaxIds : \A a \in Attributes :
               (InTable(id) /\ RefValue(id, a) = "") => chk.updated[id][a] = ""

\* Row 1 is in tier2, which has no Unit column: its Label was overwritten
\* and its Unit kept; row 2 is in no tier and is unchanged.
C26_Witness ==
    /\ chk.op = "update" /\ chk.done
    /\ chk.tiers[1].tier = "tier2" /\ ~chk.tier2_has_unit /\ ~InTable(2)
    /\ chk.dictionary[1] = [Label |-> "ds", Unit |-> "ds"]
    /\ chk.updated[1] = [Label |-> "ref", Unit |-> "ds"]
    /\ chk.updated[2] = chk.dictionary[2]

\* ------------------------------------------------------------------ C27
Remapped == chk.renamed \in DOMAIN RADX_RAD_TO_RADX_GLOBAL_MAPPINGS

MappingOf(column) == RADX_RAD_TO_RADX_GLOBAL_MAPPINGS[column]

\* The cell holds the mapped code of the value, once substituted (the empty
\* code is written as the missing value code afterwards).
HoldsCode(i, column) ==
    chk.data[i] = (IF MappingOf(column)[chk.cells[i]] = "" THEN "-9960"
                   ELSE MappingOf(column)[chk.cells[i]])

\* C27 as stated: in each of the five remapped columns every cell value that
\* is a key of the column's mapping is replaced by the mapped code, in one
\* simultaneous substitution.
C27_EveryKeyRemapped ==
    (chk.op = "remap" /\ chk.done /\ Remapped) =>
        \A i \in DOMAIN chk.cells :
            chk.cells[i] \in DOMAIN MappingOf(chk.renamed) => HoldsCode(i, chk.renamed)

\* C27, what convert_exceptions does: the substitution is made in the
\* columns nih_sex, nih_employment, nih_insurance and nih_health_status; in
\* nih_race a cell with several races becomes "6" and every other cell is
\* left as it is, its mapping never applied.
C27_RaceNotRemapped ==
    (chk.op = "remap" /\ chk.done /\ Remapped) =>
        \A i \in DOMAIN chk.cells :
            IF chk.renamed = "nih_race"
            THEN chk.data[i] = (CASE chk.cells[i] = "1|2" -> "6"
                                  [] chk.cells[i] = "" -> "-9960"
                                  [] OTHER -> chk.cells[i])
            ELSE IF chk.cells[i] \in DOMAIN MappingOf(chk.renamed)
            THEN HoldsCode(i, chk.renamed)
            ELSE chk.data[i] = chk.cells[i]

\* The sex codes 2 and 3 have become 0 and 2: the 2 written for 3 was not
\* substituted again.
C27_Witness ==
    /\ chk.op = "remap" /\ chk.done
    /\ chk.renamed = "nih_sex"
    /\ chk.cells = <<"2", "3">>
    /\ chk.data = <<"0", "2">>

\* ------------------------------------------------------------------ C29
Converted == chk.op = "global" /\ chk.done /\ contains_min_cdes(chk.fields)

OneHeightOnly == ("height_feet" \in chk.fields) # ("height_inches" \in chk.fields)

\* C29 as stated: for every subset of the minimum CDEs, one of a pair
\* included, the identifiers of the converted dictionary are columns of the
\* converted data, and global_data_dict_matcher does not raise.
C29_MatcherNeverRaises ==
    Converted => (chk.ids \subseteq chk.columns /\ ~chk.raised)

\* C29, what the conversions do: the matcher raises exactly when the data
\* holds one of height_feet and height_inches without the other; the
\* dictionary then names nih_height and the data nih_height1 or nih_height2.
C29_RaisesOnSingleHeight ==
    Converted =>
        /\ chk.raised <=> OneHeightOnly
        /\ chk.raised <=> ~(chk.ids \subseteq chk.columns)
        /\ OneHeightOnly =>
               /\ chk.ids \ chk.columns = {"nih_height"}
               /\ chk.columns \cap {"nih_height1", "nih_height2"} # {}

\* Fever without chills: data and dictionary both name nih_fever_chills.
C29_Witness ==
    /\ Converted
    /\ chk.fields = {"fever", "x"}
    /\ chk.columns = {"nih_fever_chills", "x"}
    /\ chk.ids = chk.columns
    /\ ~chk.raised

\* ------------------------------------------------------------------ C30
CardinalityWritten == chk.op = "card" /\ chk.done = "written"

\* C30 as stated: for every allowed field type the cardinality written to
\* the codebook is the one used in validation: multiple exactly for list
\* and checkbox.
C30_CardinalitiesAgree ==
    CardinalityWritten =>
        /\ chk.written = chk.validated
        /\ chk.written = "multiple" <=> chk.row.ftype \in {"list", "checkbox"}

\* C30, what the two functions do: validation takes list and checkbox as
\* multiple, the codebook only list; they differ exactly for checkbox.
C30_CheckboxWrittenSingle ==
    CardinalityWritten =>
        /\ chk.validated = "multiple" <=> chk.row.ftype \in {"list", "checkbox"}
        /\ chk.written = "multiple" <=> chk.row.ftype = "list"
        /\ chk.written # chk.validated <=> chk.row.ftype = "checkbox"

\* A list field is multiple in validation and in the codebook.
C30_Witness ==
    /\ CardinalityWritten
    /\ chk.row.ftype = "list"
    /\ chk.validated = "multiple" /\ chk.written = "multiple"

\* ------------------------------------------------------------------ C28
\* The most recent phase 2 run over the dataset of project 1 executed all
\* seven steps (step 1 is left out by -rerun) on the whole dataset with an
\* empty error list.
LastPhase2Complete == chk.op = "phase2" /\ chk.outcome = "complete"

\* This step of phase 3 copies origcopy files to the origcopy directory.
Promotes == out'[1].oc # out[1].oc /\ out'[1].oc # {}

\* C28 as stated: phase 3 copies the origcopy files of a dataset only if
\* the most recent phase 2 run over it executed all seven steps with an
\* empty error list; after a run that was skipped, sliced or ended
\* abnormally it does not promote files left by an earlier run.
C28_PromotesOnlyAfterCompleteRun ==
    [][Promotes => LastPhase2Complete]_vars

\* C28, what phase 3 tests: it copies origcopy files only from a work
\* directory without phase1_errors.csv and phase2_errors.csv that holds
\* origcopy files, whichever run wrote them; a last phase 2 run that saved
\* errors is the one outcome that prevents the copy.
C28_PromotesWithoutErrorFiles ==
    [][Promotes =>
           /\ run.phase = 3
           /\ ~phase1_error_file(work[1])
           /\ ~phase2_error_file(work[1])
           /\ out'[1].oc \subseteq OrigFiles(work[1], "DICT")
           /\ chk.op = "phase2" /\ chk.outcome # "errors"]_vars

\* Phase 3 has promoted after a complete phase 2 run.
C28_Witness ==
    /\ out[1].oc # {}
    /\ run.phase = 3
    /\ LastPhase2Complete
    /\ work[1].log = [p \in 1..3 |-> <<>>]

====
